---- MODULE Spec2Model ----
(***************************************************************************)
(* Multi-tenant isolation and request scoping of cloudMemberHub-Backend.   *)
(*                                                                         *)
(* Several state machines share this module, among them:                   *)
(*   SpecCtx   - tenantMiddleware + TenantContext (AsyncLocalStorage)      *)
(*   SpecRepo  - TenantAwareRepository / TenantRepository operations       *)
(*   SpecUsage - TenantService.updateUsage, UserService.create and the     *)
(*               Tenant model's usage accounting                           *)
(* Each machine leaves the variables of the other machines unchanged.      *)
(***************************************************************************)
EXTENDS Integers, FiniteSets, Sequences, TLC

VARIABLES
  \* ---- request scoping (SpecCtx) ----
  required,        \* createTenantMiddleware option `required`
  alsStore,        \* AsyncLocalStorage: store attached to each async execution chain
  reqPc,           \* position of each request
  reqBound,        \* descriptor the middleware passed to run() for the request
  reqSeen,         \* values getCurrentTenant() has returned to the request
  reqAwaits,       \* suspension points the request's handler has passed
  \* ---- tenant-aware data access (SpecRepo) ----
  isoStrategy,     \* isolationStrategy field of each tenant's descriptor
  collections,     \* the record stores: the shared Model's collection, the
                   \* <tenantSchema>_<collection> collections, the dedicated databases
  tenantConnections, \* keys of the tenantConnections Map
  nextId,          \* next _id the store hands out
  last,            \* outcome of the last repository operation
  \* ---- tenant directory and usage accounting (SpecRepo, SpecUsage) ----
  tenantDocs,      \* Tenant collection: tenantId -> document
  userRecords,     \* user documents saved per tenant
  memberRecords,   \* member documents saved per tenant
  calls,           \* in-flight service calls: position, arguments, loaded document,
                   \* usageStats.isWithinLimits.users (within), result, and what the
                   \* properties read: wrote, full, over
  started,         \* service calls started so far
  acct,            \* per resource type: sum of the increments of the updateUsage calls that succeeded
  \* ---- tenant rate limiter (SpecRate) ----
  now,             \* Date.now(), in milliseconds
  ticks,           \* clock advances so far
  rlConfig,        \* tenantConfig.rateLimits.requests of each descriptor (0: not configured)
  tenantLimits,    \* the limiter's Map: tenantId -> { requests, resetTime }
  rlLast,          \* answer to the request that reached the limiter at the current instant
  winAnchor,       \* per tenant: time of the first request observed in its current window
  winSeen,         \* per tenant: requests observed in its current window
  \* ---- identifier extraction (SpecIdent) ----
  idStrategy,      \* strategy argument of resolveTenant
  idReq,           \* the request: headers, host, path
  idOut,           \* what the strategy's extraction produced
  \* ---- tenant resolution and its cache (SpecResolve) ----
  strategy,        \* createTenantMiddleware option `strategy`
  skipRoutes,      \* createTenantMiddleware option `skipRoutes`
  directory,       \* the Tenant Directory: tenant id -> descriptor
  tenantCache,     \* TenantResolver.tenantCache: id -> { data, timestamp }
  cacheNow,        \* Date.now() as the resolver sees it
  cacheTicks,      \* clock advances so far
  resolves,        \* the request in flight through the tenant middleware: position, lookup
                   \* key, descriptor obtained, what the cache held when it was consulted
                   \* (sawYoung, sawData), revision the Directory held then (dirRev),
                   \* whether the Directory was read, outcome
  invalidated,     \* ids whose entry clearCache removed and no resolve has looked up since
  lastResolved,    \* per tenant: time of its last successful resolve by subdomain, or -1
  \* ---- nested context scopes (SpecScope) ----
  scopeStore,      \* the store AsyncLocalStorage holds for the executing call chain
  scopeSaved,      \* stores saved by the run() calls in progress, innermost last
  scopeEnclosing,  \* descriptors passed to the run() calls in progress, innermost last
  scopeTasks,      \* continuations spawned inside a run and not yet executed
  scopeLast,       \* the last getCurrentTenant() call and what it returned
  \* ---- dedicated connections and their drain (SpecConn) ----
  connCache,       \* the tenantConnections Map, entries in insertion order
  connState,       \* each connection handle: unused, open, closing, closed, closeFailed
  connOwner,       \* the tenant whose operation created the handle
  connDropped,     \* handles that clear() has removed from the Map
  drainPc,         \* closeTenantConnections: idle, or awaiting a close()
  drainIdx,        \* position of the Map iterator
  drainRuns,       \* drains started so far
  drainLast,       \* how the last drain ended
  connLast,        \* the last data-access operation and the handle it was routed to
  \* ---- descriptor objects shared by reference (SpecShare) ----
  shStrategy,      \* the middleware's resolution strategy
  shHeap,          \* descriptor objects: the value of the field setCurrentTenant assigns
  shCache,         \* tenantCache: tenant id -> the object its entry's data refers to, 0 none
  shReqs,          \* each request: position, tenant, the object run() bound, what it read
  \* ---- tenant lifecycle administration (SpecAdmin) ----
  registry,        \* the Tenant collection: one document per slot (_id)
  adminLast,       \* the last TenantService call and how it ended
  \* ---- usage percentages (SpecPct) ----
  pctUsage,        \* usage.current<Resource> of the document
  pctQuota,        \* limits.max<Resource> of the document
  pctOut           \* the usagePercentage value last reported, and by which model

ctxVars == <<required, alsStore, reqPc, reqBound, reqSeen, reqAwaits>>
repoVars == <<isoStrategy, collections, tenantConnections, nextId, last>>
usageVars == <<userRecords, memberRecords, calls, started, acct>>
rateVars == <<now, ticks, rlConfig, tenantLimits, rlLast, winAnchor, winSeen>>
identVars == <<idStrategy, idReq, idOut>>
resolveVars == <<strategy, skipRoutes, directory, tenantCache, cacheNow, cacheTicks,
                 resolves, invalidated, lastResolved>>
scopeVars == <<scopeStore, scopeSaved, scopeEnclosing, scopeTasks, scopeLast>>
connVars == <<connCache, connState, connOwner, connDropped, drainPc, drainIdx, drainRuns,
              drainLast, connLast>>
shareVars == <<shStrategy, shHeap, shCache, shReqs>>
adminVars == <<registry, adminLast>>
pctVars == <<pctUsage, pctQuota, pctOut>>
lateVars == <<connVars, shareVars, adminVars, pctVars>>
extVars == <<rateVars, identVars, resolveVars, scopeVars, lateVars>>
vars == <<ctxVars, repoVars, tenantDocs, usageVars, extVars>>

----------------------------------------------------------------------------
(* Bounds *)

MaxAwaits == 2
MaxRecords == 1
MaxQuota == 2
MaxCalls == 4
MaxBudget == 2
MaxTicks == 3
MaxOver == 2
MaxRev == 2
MaxCacheTicks == 2
MaxDepth == 3
MaxTasks == 2
MaxConns == 3
MaxDrains == 2
MaxObjects == 3
MaxSlots == 2
MaxUsage == 7
MaxLimit == 8

----------------------------------------------------------------------------
(* Shared vocabulary *)

Tenants == {"a", "b"}
None == "none"            \* null / undefined: no descriptor

Requests == {"r1", "r2"}
HeaderVals == Tenants \cup {"ghost", None}   \* tenant id header: known, unknown, missing

----------------------------------------------------------------------------
(* TenantResolver.resolveTenant (header strategy), as the middleware sees it: *)
(* a descriptor, or a thrown AppError.                                        *)

ResolveOutcome(hdr) ==
  IF hdr = None THEN [ok |-> FALSE, status |-> 400, tenant |-> None]
  ELSE IF hdr \notin Tenants THEN [ok |-> FALSE, status |-> 404, tenant |-> None]
  ELSE [ok |-> TRUE, status |-> 200, tenant |-> hdr]

(* AsyncLocalStorage keeps one store per async execution chain: the slot a   *)
(* chain reads and writes is its own.                                        *)
SharedSlot(r) == "r1"

StoreSlot(r) == r

\* TenantContext.run(tenantInfo, callback): binds tenantInfo for the callback's chain
ContextRun(stores, r, tenantInfo) == [stores EXCEPT ![StoreSlot(r)] = tenantInfo]

\* TenantContext.getCurrentTenant(): the store of the executing chain
GetCurrentTenant(stores, r) == stores[StoreSlot(r)]

(* createTenantMiddleware: skip route -> next() outside any run; otherwise    *)
(* resolve, fail the request when required, else run(tenantInfo, next). The   *)
(* handler started by next() reads the context and reaches its first await.   *)
TenantMiddleware(r, hdr, skip) ==
  /\ reqPc[r] = "idle"
  /\ LET out == ResolveOutcome(hdr) IN
     IF skip
     THEN /\ reqPc' = [reqPc EXCEPT ![r] = "suspended"]
          /\ reqBound' = [reqBound EXCEPT ![r] = None]
          /\ reqSeen' = [reqSeen EXCEPT ![r] = {GetCurrentTenant(alsStore, r)}]
          /\ UNCHANGED alsStore
     ELSE IF required /\ ~out.ok
     THEN /\ reqPc' = [reqPc EXCEPT ![r] = "failed"]
          /\ UNCHANGED <<reqBound, alsStore, reqSeen>>
     ELSE /\ reqPc' = [reqPc EXCEPT ![r] = "suspended"]
          /\ reqBound' = [reqBound EXCEPT ![r] = out.tenant]
          /\ alsStore' = ContextRun(alsStore, r, out.tenant)
          /\ reqSeen' = [reqSeen EXCEPT ![r] = {GetCurrentTenant(alsStore', r)}]
  /\ reqAwaits' = [reqAwaits EXCEPT ![r] = 0]
  /\ UNCHANGED <<required, repoVars, tenantDocs, usageVars, extVars>>

\* A continuation of the handler resumes after an await, reads the context, awaits again
HandlerResume(r) ==
  /\ reqPc[r] = "suspended"
  /\ reqAwaits[r] < MaxAwaits
  /\ reqSeen' = [reqSeen EXCEPT ![r] = @ \cup {GetCurrentTenant(alsStore, r)}]
  /\ reqAwaits' = [reqAwaits EXCEPT ![r] = @ + 1]
  /\ UNCHANGED <<required, alsStore, reqPc, reqBound, repoVars, tenantDocs, usageVars, extVars>>

\* The last continuation reads the context and the request completes
HandlerFinish(r) ==
  /\ reqPc[r] = "suspended"
  /\ reqSeen' = [reqSeen EXCEPT ![r] = @ \cup {GetCurrentTenant(alsStore, r)}]
  /\ reqPc' = [reqPc EXCEPT ![r] = "done"]
  /\ UNCHANGED <<required, alsStore, reqBound, reqAwaits, repoVars, tenantDocs, usageVars, extVars>>

\* The response is sent; the request slot serves the next request
RequestEnd(r) ==
  /\ reqPc[r] \in {"done", "failed"}
  /\ reqPc' = [reqPc EXCEPT ![r] = "idle"]
  /\ reqBound' = [reqBound EXCEPT ![r] = None]
  /\ reqSeen' = [reqSeen EXCEPT ![r] = {}]
  /\ reqAwaits' = [reqAwaits EXCEPT ![r] = 0]
  /\ alsStore' = [alsStore EXCEPT ![r] = None]
  /\ UNCHANGED <<required, repoVars, tenantDocs, usageVars, extVars>>

----------------------------------------------------------------------------
(* Tenant-aware data access: TenantAwareRepository                          *)

AnyTenant == "any"                      \* a query that names no tenantId
Strategies == {"database", "schema", "row", "absent"}   \* "absent": undefined or unrecognised
RecordIds == 1..MaxRecords
CollNames == {<<"shared", None>>}
             \cup {<<"dedicated", t>> : t \in Tenants}
             \cup {<<"namespace", t>> : t \in Tenants}
\* Caller queries: by tenantId or unconditioned; the by-id operations build their own
Queries == [hasId : {FALSE}, id : {1}, tenantId : Tenants \cup {AnyTenant}]
Payloads == [tenantId : Tenants \cup {None}]   \* None: the payload carries no tenantId
Pipelines == {<< >>} \cup {<<q>> : q \in Queries}
NoOp == [op |-> "none", repo |-> None, by |-> None, error |-> None,
         coll |-> <<"shared", None>>, filtered |-> FALSE, touched |-> FALSE,
         matched |-> {}]

\* The descriptor bound for tenant cur (getCurrentTenant()'s result)
Descriptor(cur) ==
  IF cur = None
  THEN [tenantId |-> None, isolationStrategy |-> "absent", tenantSchema |-> None]
  ELSE [tenantId |-> cur, isolationStrategy |-> isoStrategy[cur], tenantSchema |-> cur]

GetTenantModelUnchecked(cur) ==
  LET d == Descriptor(cur) IN
  IF d.isolationStrategy = "database" THEN [error |-> None, coll |-> <<"dedicated", d.tenantId>>]
  ELSE IF d.isolationStrategy = "schema" THEN [error |-> None, coll |-> <<"namespace", d.tenantSchema>>]
  ELSE [error |-> None, coll |-> <<"shared", None>>]

\* getTenantModel(): throws without a descriptor, else dispatches on isolationStrategy
GetTenantModel(cur) ==
  IF cur = None THEN [error |-> "ContextRequired", coll |-> <<"shared", None>>]
  ELSE LET d == Descriptor(cur) IN
       IF d.isolationStrategy = "database" THEN [error |-> None, coll |-> <<"dedicated", d.tenantId>>]
       ELSE IF d.isolationStrategy = "schema" THEN [error |-> None, coll |-> <<"namespace", d.tenantSchema>>]
       ELSE [error |-> None, coll |-> <<"shared", None>>]

\* getTenantDatabaseModel(): the connection is created and cached on first use
ConnectionsAfter(cur) ==
  IF cur # None /\ Descriptor(cur).isolationStrategy = "database"
  THEN tenantConnections \cup {cur}
  ELSE tenantConnections

\* Whether the operations add the tenantId condition (row-level isolation only)
RowScoped(cur) == cur # None /\ Descriptor(cur).isolationStrategy = "row"

\* addTenantFilter(query): query.tenantId = current, under row-level isolation only
AddTenantFilter(q, cur) == IF RowScoped(cur) THEN [q EXCEPT !.tenantId = cur] ELSE q

Matches(rec, q) ==
  /\ q.hasId => rec.id = q.id
  /\ q.tenantId # AnyTenant => rec.tenantId = q.tenantId

Matching(coll, q) == {rec \in collections[coll] : Matches(rec, q)}

ById(id) == [hasId |-> TRUE, id |-> id, tenantId |-> AnyTenant]

\* The thrown 'Tenant context not found': nothing is read or written
Rejected(op, cur, m) ==
  /\ last' = [op |-> op, repo |-> "TenantAwareRepository", by |-> cur, error |-> m.error,
              coll |-> m.coll, filtered |-> FALSE, touched |-> FALSE, matched |-> {}]
  /\ UNCHANGED <<isoStrategy, collections, tenantConnections, nextId>>

Done(op, cur, m, res) ==
  last' = [op |-> op, repo |-> "TenantAwareRepository", by |-> cur, error |-> None,
           coll |-> m.coll, filtered |-> RowScoped(cur), touched |-> TRUE, matched |-> res]

\* A read that returns every match (find, count) or one of them (findOne, findById, exists)
ReadAll(op, cur, q) ==
  LET m == GetTenantModel(cur) IN
  IF m.error # None THEN Rejected(op, cur, m)
  ELSE /\ Done(op, cur, m, Matching(m.coll, AddTenantFilter(q, cur)))
       /\ tenantConnections' = ConnectionsAfter(cur)
       /\ UNCHANGED <<isoStrategy, collections, nextId>>

ReadOne(op, cur, q) ==
  LET m == GetTenantModel(cur) IN
  IF m.error # None THEN Rejected(op, cur, m)
  ELSE LET found == Matching(m.coll, AddTenantFilter(q, cur)) IN
       /\ \/ found = {} /\ Done(op, cur, m, {})
          \/ \E rec \in found : Done(op, cur, m, {rec})
       /\ tenantConnections' = ConnectionsAfter(cur)
       /\ UNCHANGED <<isoStrategy, collections, nextId>>

\* findOneAndUpdate(query, {...data, updatedAt}): one match gets the payload's fields
UpdateOneMatching(op, cur, q, data) ==
  LET m == GetTenantModel(cur) IN
  IF m.error # None THEN Rejected(op, cur, m)
  ELSE LET found == Matching(m.coll, AddTenantFilter(q, cur)) IN
       /\ \/ found = {} /\ Done(op, cur, m, {}) /\ UNCHANGED collections
          \/ \E rec \in found :
               LET new == IF data.tenantId = None THEN rec
                          ELSE [rec EXCEPT !.tenantId = data.tenantId] IN
               /\ collections' = [collections EXCEPT ![m.coll] = (@ \ {rec}) \cup {new}]
               /\ Done(op, cur, m, {new})
       /\ tenantConnections' = ConnectionsAfter(cur)
       /\ UNCHANGED <<isoStrategy, nextId>>

\* findOneAndDelete(query): one match is removed
DeleteOneMatching(op, cur, q) ==
  LET m == GetTenantModel(cur) IN
  IF m.error # None THEN Rejected(op, cur, m)
  ELSE LET found == Matching(m.coll, AddTenantFilter(q, cur)) IN
       /\ \/ found = {} /\ Done(op, cur, m, {}) /\ UNCHANGED collections
          \/ \E rec \in found :
               /\ collections' = [collections EXCEPT ![m.coll] = @ \ {rec}]
               /\ Done(op, cur, m, {rec})
       /\ tenantConnections' = ConnectionsAfter(cur)
       /\ UNCHANGED <<isoStrategy, nextId>>

RepoFrame == UNCHANGED <<ctxVars, tenantDocs, usageVars, extVars>>

\* create(data): the tenantId is stamped under row-level isolation only
RepoCreate(cur, data) ==
  /\ nextId <= MaxRecords
  /\ LET m == GetTenantModel(cur) IN
     IF m.error # None THEN Rejected("create", cur, m)
     ELSE LET rec == [id |-> nextId,
                      tenantId |-> IF RowScoped(cur) THEN cur ELSE data.tenantId,
                      creator |-> cur] IN
          /\ collections' = [collections EXCEPT ![m.coll] = @ \cup {rec}]
          /\ nextId' = nextId + 1
          /\ last' = [op |-> "create", repo |-> "TenantAwareRepository", by |-> cur,
                      error |-> None, coll |-> m.coll, filtered |-> RowScoped(cur),
                      touched |-> TRUE, matched |-> {rec}]
          /\ tenantConnections' = ConnectionsAfter(cur)
          /\ UNCHANGED isoStrategy
  /\ RepoFrame

RepoFindById(cur, id) == ReadOne("findById", cur, ById(id)) /\ RepoFrame

RepoFindOne(cur, q) == ReadOne("findOne", cur, q) /\ RepoFrame

RepoFind(cur, q) == ReadAll("find", cur, q) /\ RepoFrame

RepoUpdateById(cur, id, data) == UpdateOneMatching("updateById", cur, ById(id), data) /\ RepoFrame

RepoUpdateOne(cur, q, data) == UpdateOneMatching("updateOne", cur, q, data) /\ RepoFrame

RepoDeleteById(cur, id) == DeleteOneMatching("deleteById", cur, ById(id)) /\ RepoFrame

RepoDeleteOne(cur, q) == DeleteOneMatching("deleteOne", cur, q) /\ RepoFrame

RepoCount(cur, q) == ReadAll("count", cur, q) /\ RepoFrame

RepoExists(cur, q) == ReadOne("exists", cur, q) /\ RepoFrame

\* aggregate(pipeline): a $match on tenantId is put first under row-level isolation only
RepoAggregate(cur, pipeline) ==
  /\ LET m == GetTenantModel(cur) IN
     IF m.error # None THEN Rejected("aggregate", cur, m)
     ELSE LET stages == IF RowScoped(cur)
                        THEN <<[hasId |-> FALSE, id |-> 1, tenantId |-> cur]>> \o pipeline
                        ELSE pipeline
              res == {rec \in collections[m.coll] :
                        \A i \in 1..Len(stages) : Matches(rec, stages[i])} IN
          /\ Done("aggregate", cur, m, res)
          /\ tenantConnections' = ConnectionsAfter(cur)
          /\ UNCHANGED <<isoStrategy, collections, nextId>>
  /\ RepoFrame

----------------------------------------------------------------------------
(* Tenant directory: the Tenant model and TenantRepository                   *)

DirIds == Tenants \cup {"c"}
Unlimited == -1
QuotaValues == {Unlimited} \cup 1..MaxQuota
Types == {"users", "members", "storage", "api"}

AbsentDoc ==
  [exists |-> FALSE, isActive |-> FALSE, status |-> "none",
   usage |-> [currentUsers |-> 0, currentMembers |-> 0, storageUsedGB |-> 0,
              apiCallsThisMonth |-> 0],
   limits |-> [maxUsers |-> 0, maxMembers |-> 0, maxStorageGB |-> 0,
               maxApiCallsPerMonth |-> 0]]

\* tenantSchema.limits defaults
SchemaDefaultLimits ==
  [maxUsers |-> 10, maxMembers |-> 100, maxStorageGB |-> 1, maxApiCallsPerMonth |-> 1000]

UniformLimits(q) ==
  [maxUsers |-> q, maxMembers |-> q, maxStorageGB |-> q, maxApiCallsPerMonth |-> q]

\* A stored tenant with the given limits, active (isActive defaults to true), counters at zero
TenantDoc(status, limits) ==
  [exists |-> TRUE, isActive |-> TRUE, status |-> status,
   usage |-> [currentUsers |-> 0, currentMembers |-> 0, storageUsedGB |-> 0,
              apiCallsThisMonth |-> 0],
   limits |-> limits]

\* TenantRepository.create(data): saves the tenant document; no tenant context is read
TenantRepoCreate(cur, id) ==
  /\ id \in DirIds
  /\ IF tenantDocs[id].exists
     THEN /\ last' = [op |-> "create", repo |-> "TenantRepository", by |-> cur,
                      error |-> "DuplicateKey", coll |-> <<"shared", None>>,
                      filtered |-> FALSE, touched |-> TRUE, matched |-> {}]
          /\ UNCHANGED tenantDocs
     ELSE /\ tenantDocs' = [tenantDocs EXCEPT ![id] = TenantDoc("pending", SchemaDefaultLimits)]
          /\ last' = [op |-> "create", repo |-> "TenantRepository", by |-> cur,
                      error |-> None, coll |-> <<"shared", None>>,
                      filtered |-> FALSE, touched |-> TRUE, matched |-> {}]
  /\ UNCHANGED <<isoStrategy, collections, tenantConnections, nextId, ctxVars, usageVars, extVars>>

----------------------------------------------------------------------------
(* Usage accounting: Tenant model methods, TenantService, UserService        *)

\* tenantSchema.statics.findByTenantId: findOne({ tenantId, isActive: true })
FindByTenantId(id) ==
  IF id \in DOMAIN tenantDocs /\ tenantDocs[id].exists /\ tenantDocs[id].isActive
  THEN tenantDocs[id]
  ELSE AbsentDoc

\* tenantSchema.methods.isWithinLimits
IsWithinLimits(doc) ==
  [users |-> doc.usage.currentUsers < doc.limits.maxUsers,
   members |-> doc.usage.currentMembers < doc.limits.maxMembers,
   storage |-> doc.usage.storageUsedGB < doc.limits.maxStorageGB,
   apiCalls |-> doc.usage.apiCallsThisMonth < doc.limits.maxApiCallsPerMonth]

\* The counter tenantSchema.methods.updateUsage's switch increments for a type
UsageField(type) ==
  CASE type = "users" -> "currentUsers"
    [] type = "members" -> "currentMembers"
    [] type = "storage" -> "storageUsedGB"
    [] type = "api" -> "apiCallsThisMonth"

\* The limit that bounds that counter in tenantSchema.limits
LimitField(type) ==
  CASE type = "users" -> "maxUsers"
    [] type = "members" -> "maxMembers"
    [] type = "storage" -> "maxStorageGB"
    [] type = "api" -> "maxApiCallsPerMonth"

\* TenantService.updateUsage: `current${Type}` and `max${Type}`
CurrentKey(type) ==
  CASE type = "users" -> "currentUsers"
    [] type = "members" -> "currentMembers"
    [] type = "storage" -> "currentStorage"
    [] type = "api" -> "currentApi"

MaxKey(type) ==
  CASE type = "users" -> "maxUsers"
    [] type = "members" -> "maxMembers"
    [] type = "storage" -> "maxStorage"
    [] type = "api" -> "maxApi"

(* TenantService.updateUsage's check                                        *)
(*   maxValue !== -1 && currentValue + increment > maxValue                 *)
(* on the values read under the derived keys. A key the document does not   *)
(* have reads as undefined: undefined !== -1 holds, and a comparison with   *)
(* NaN or undefined is false.                                               *)
LimitExceeded(doc, type, inc) ==
  IF CurrentKey(type) \in DOMAIN doc.usage /\ MaxKey(type) \in DOMAIN doc.limits
  THEN /\ doc.limits[MaxKey(type)] # Unlimited
       /\ doc.usage[CurrentKey(type)] + inc > doc.limits[MaxKey(type)]
  ELSE FALSE

\* tenantSchema.methods.updateUsage, the part before save(): the loaded document's counter
Incremented(doc, type, inc) ==
  [doc EXCEPT !.usage[UsageField(type)] = @ + inc]

\* save() of the loaded document: the modified counter is written with the document's value
SavedUsage(stored, doc, type) ==
  [stored EXCEPT !.usage[UsageField(type)] = doc.usage[UsageField(type)]]

UsageFrame == UNCHANGED <<ctxVars, repoVars, extVars>>

Calls == {"c1", "c2"}
CallTenants == {"a", "ghost"}     \* a stored tenant, and an id the directory does not hold

IdleCall ==
  [kind |-> "none", pc |-> "idle", tenant |-> "a", type |-> "users", delta |-> 1,
   doc |-> AbsentDoc, within |-> TRUE, result |-> None,
   wrote |-> FALSE, full |-> FALSE, over |-> FALSE]

Finish(c, result) == [calls[c] EXCEPT !.pc = "done", !.result = result]

\* Whether the document's counter for a type has reached its finite limit
AtFiniteLimit(doc, type) ==
  /\ doc.exists
  /\ doc.limits[LimitField(type)] # Unlimited
  /\ doc.usage[UsageField(type)] >= doc.limits[LimitField(type)]

\* A request calls TenantService.updateUsage(tenantId, type) with the default increment
StartUpdateUsage(c, t, type) ==
  /\ calls[c].pc = "idle"
  /\ started < MaxCalls
  /\ calls' = [calls EXCEPT ![c] = [IdleCall EXCEPT !.kind = "updateUsage", !.pc = "uu_read",
                                                    !.tenant = t, !.type = type]]
  /\ started' = started + 1
  /\ UNCHANGED <<tenantDocs, userRecords, memberRecords, acct>>
  /\ UsageFrame

\* A request calls UserService.create(userData, tenantId)
StartCreateUser(c, t) ==
  /\ calls[c].pc = "idle"
  /\ started < MaxCalls
  /\ calls' = [calls EXCEPT ![c] = [IdleCall EXCEPT !.kind = "createUser", !.pc = "cu_validate",
                                                    !.tenant = t, !.type = "users"]]
  /\ started' = started + 1
  /\ UNCHANGED <<tenantDocs, userRecords, memberRecords, acct>>
  /\ UsageFrame

(* UserService.validateTenantCapacity: getUsageStats reads the tenant; a     *)
(* missing tenant (404) or isWithinLimits.users = false (403) ends the call.  *)
ValidateTenantCapacity(c) ==
  /\ calls[c].pc = "cu_validate"
  /\ LET doc == FindByTenantId(calls[c].tenant)
         full == AtFiniteLimit(doc, "users") IN
     calls' = [calls EXCEPT ![c] =
                 IF ~doc.exists THEN Finish(c, "NotFound")
                 ELSE IF ~IsWithinLimits(doc).users
                 THEN [Finish(c, "QuotaExceeded") EXCEPT !.full = full, !.within = FALSE]
                 ELSE [calls[c] EXCEPT !.pc = "cu_save", !.full = full, !.within = TRUE]]
  /\ UNCHANGED <<tenantDocs, userRecords, memberRecords, started, acct>>
  /\ UsageFrame

\* UserService.create: user.save(), then tenantService.updateUsage(tenantId, 'users', 1)
SaveUser(c) ==
  /\ calls[c].pc = "cu_save"
  /\ userRecords' = [userRecords EXCEPT ![calls[c].tenant] = @ + 1]
  /\ calls' = [calls EXCEPT ![c] = [@ EXCEPT !.pc = "uu_read", !.wrote = TRUE]]
  /\ UNCHANGED <<tenantDocs, memberRecords, started, acct>>
  /\ UsageFrame

\* TenantService.updateUsage: const tenant = await this.getById(tenantId)
UpdateUsageRead(c) ==
  /\ calls[c].pc = "uu_read"
  /\ LET doc == FindByTenantId(calls[c].tenant) IN
     calls' = [calls EXCEPT ![c] =
                 IF ~doc.exists THEN Finish(c, "NotFound")
                 ELSE [calls[c] EXCEPT !.pc = "uu_check", !.doc = doc]]
  /\ UNCHANGED <<tenantDocs, userRecords, memberRecords, started, acct>>
  /\ UsageFrame

(* TenantService.updateUsage: the limit check on the loaded document, then   *)
(* tenant.updateUsage(type, increment) up to its save().                     *)
UpdateUsageCheck(c) ==
  /\ calls[c].pc = "uu_check"
  /\ LET cl == calls[c]
         over == /\ cl.doc.limits[LimitField(cl.type)] # Unlimited
                 /\ cl.doc.usage[UsageField(cl.type)] + cl.delta
                      > cl.doc.limits[LimitField(cl.type)] IN
     calls' = [calls EXCEPT ![c] =
                 IF LimitExceeded(cl.doc, cl.type, cl.delta)
                 THEN [Finish(c, "QuotaExceeded") EXCEPT !.over = over]
                 ELSE [cl EXCEPT !.pc = "uu_save", !.over = over,
                                 !.doc = Incremented(cl.doc, cl.type, cl.delta)]]
  /\ UNCHANGED <<tenantDocs, userRecords, memberRecords, started, acct>>
  /\ UsageFrame

\* tenantSchema.methods.updateUsage: return this.save()
UpdateUsageSave(c) ==
  /\ calls[c].pc = "uu_save"
  /\ LET cl == calls[c] IN
     /\ tenantDocs' = [tenantDocs EXCEPT ![cl.tenant] = SavedUsage(@, cl.doc, cl.type)]
     /\ acct' = [acct EXCEPT ![cl.type] = @ + cl.delta]
     /\ calls' = [calls EXCEPT ![c] = Finish(c, "ok")]
  /\ UNCHANGED <<userRecords, memberRecords, started>>
  /\ UsageFrame

(* A member record is created through the repository for a bound tenant:     *)
(* TenantAwareRepository.create saves the document; usage is not read.       *)
CreateMember(c, t) ==
  /\ calls[c].pc = "idle"
  /\ started < MaxCalls
  /\ t \in Tenants
  /\ memberRecords' = [memberRecords EXCEPT ![t] = @ + 1]
  /\ calls' = [calls EXCEPT ![c] =
                 [IdleCall EXCEPT !.kind = "createMember", !.pc = "done", !.tenant = t,
                                  !.type = "members", !.result = "ok", !.wrote = TRUE,
                                  !.full = AtFiniteLimit(tenantDocs[t], "members")]]
  /\ started' = started + 1
  /\ UNCHANGED <<tenantDocs, userRecords, acct>>
  /\ UsageFrame

(* A request calls UserService.delete(userId, tenantId, requestingUserId):   *)
(* User.findOne for a non-deleted user of the tenant (404 when none), then    *)
(* validateDeletePermissions (it throws unless the requester is allowed).     *)
StartDeleteUser(c, t, allowed) ==
  /\ calls[c].pc = "idle"
  /\ started < MaxCalls
  /\ LET cl == [IdleCall EXCEPT !.kind = "deleteUser", !.tenant = t, !.type = "users",
                                !.delta = -1] IN
     calls' = [calls EXCEPT ![c] =
                 IF userRecords[t] = 0 THEN [cl EXCEPT !.pc = "done", !.result = "NotFound"]
                 ELSE IF ~allowed THEN [cl EXCEPT !.pc = "done", !.result = "Forbidden"]
                 ELSE [cl EXCEPT !.pc = "du_soft"]]
  /\ started' = started + 1
  /\ UNCHANGED <<tenantDocs, userRecords, memberRecords, acct>>
  /\ UsageFrame

(* UserService.delete: user.softDelete() saves isDeleted = true on the loaded *)
(* user - one non-deleted record fewer, unless a concurrent delete of the     *)
(* same user has saved already - then tenantService.updateUsage(.., -1).      *)
SoftDelete(c) ==
  /\ calls[c].pc = "du_soft"
  /\ userRecords' = [userRecords EXCEPT ![calls[c].tenant] = IF @ > 0 THEN @ - 1 ELSE @]
  /\ calls' = [calls EXCEPT ![c] = [@ EXCEPT !.pc = "uu_read", !.wrote = TRUE]]
  /\ UNCHANGED <<tenantDocs, memberRecords, started, acct>>
  /\ UsageFrame

\* The call's result or error has reached its caller
CallReturn(c) ==
  /\ calls[c].pc = "done"
  /\ calls' = [calls EXCEPT ![c] = IdleCall]
  /\ UNCHANGED <<tenantDocs, userRecords, memberRecords, started, acct>>
  /\ UsageFrame

----------------------------------------------------------------------------
(* Tenant rate limiter: createTenantRateLimit                               *)

WindowSize == 60000       \* const windowSize = 60 * 1000
DefaultLimit == 100       \* const defaultLimit = 100
MsPerSecond == 1000       \* divisor of the retryAfter computation
StartTime == 1000         \* Date.now() when the limiter is created
ClockSteps == {400, 59600}
Budgets == 0..MaxBudget   \* 0: rateLimits.requests absent

\* Math.ceil(n / d) for d > 0
CeilDiv(n, d) == -((-n) \div d)

\* tenantInfo.tenantConfig?.rateLimits?.requests || defaultLimit
TenantLimit(cfg) == IF cfg = 0 THEN DefaultLimit ELSE cfg

NoLimitInfo == [has |-> FALSE, requests |-> 0, resetTime |-> 0]

\* if (now > limitInfo.resetTime)
WindowExpired(at, resetTime) == at > resetTime

\* The Map entry of t after the has/set step and the reset-if-expired step
LimitInfoAt(limits, t, at) ==
  LET entry == IF limits[t].has THEN limits[t]
               ELSE [has |-> TRUE, requests |-> 0, resetTime |-> at + WindowSize] IN
  IF WindowExpired(at, entry.resetTime)
  THEN [entry EXCEPT !.requests = 0, !.resetTime = at + WindowSize]
  ELSE entry

OverLimitOffByOne(requests, limit) == requests > limit

\* if (limitInfo.requests >= tenantLimit)
OverLimit(requests, limit) == requests >= limit

RetryAfterFloor(resetTime, at) == (resetTime - at) \div MsPerSecond

\* Math.ceil((limitInfo.resetTime - now) / 1000)
RetryAfter(resetTime, at) == CeilDiv(resetTime - at, MsPerSecond)

NoAnswer == [tenant |-> None, status |-> 0, retryAfter |-> 0]

RateFrame ==
  UNCHANGED <<ctxVars, repoVars, tenantDocs, usageVars, identVars, resolveVars, scopeVars, lateVars>>

(* The limiter middleware, called with the descriptor of the ambient context *)
(* (cur = None: no descriptor, the request passes unlimited).                *)
TenantRateLimit(cur) ==
  /\ IF cur = None
     THEN /\ rlLast' = [tenant |-> None, status |-> 200, retryAfter |-> 0]
          /\ UNCHANGED <<tenantLimits, winAnchor, winSeen>>
     ELSE LET limit == TenantLimit(rlConfig[cur])
              info == LimitInfoAt(tenantLimits, cur, now)
              fresh == winAnchor[cur] < 0 \/ now > winAnchor[cur] + WindowSize
              seen == IF fresh THEN 1 ELSE winSeen[cur] + 1 IN
          /\ seen <= limit + MaxOver
          /\ winAnchor' = [winAnchor EXCEPT ![cur] = IF fresh THEN now ELSE @]
          /\ winSeen' = [winSeen EXCEPT ![cur] = seen]
          /\ IF OverLimit(info.requests, limit)
             THEN /\ tenantLimits' = [tenantLimits EXCEPT ![cur] = info]
                  /\ rlLast' = [tenant |-> cur, status |-> 429,
                                retryAfter |-> RetryAfter(info.resetTime, now)]
             ELSE /\ tenantLimits' = [tenantLimits EXCEPT ![cur] =
                                        [info EXCEPT !.requests = @ + 1]]
                  /\ rlLast' = [tenant |-> cur, status |-> 200, retryAfter |-> 0]
  /\ UNCHANGED <<now, ticks, rlConfig>>
  /\ RateFrame

\* Time passes between two requests; the last answer has been sent
ClockAdvance(d) ==
  /\ ticks < MaxTicks
  /\ now' = now + d
  /\ ticks' = ticks + 1
  /\ rlLast' = NoAnswer
  /\ UNCHANGED <<rlConfig, tenantLimits, winAnchor, winSeen>>
  /\ RateFrame

----------------------------------------------------------------------------
(* Identifier extraction: TenantResolver.resolveTenantFrom{Header,Subdomain,Path} *)

ResolveStrategies == {"header", "subdomain", "path"}

\* Header names in the order resolveTenantFromHeader reads them
HeaderNames == <<"x-organization-id", "organization-id", "x-tenant-id", "tenant-id">>
HeaderValues == {None, "", "a"}            \* header absent, empty, carrying a value
HeaderNameSet == {HeaderNames[i] : i \in 1..Len(HeaderNames)}
HeaderSets == [HeaderNameSet -> HeaderValues]

\* Host header: absent, or its labels (the pieces between the dots)
Hosts == {<<None>>, <<"">>, <<"www", "example", "com">>, <<"api", "example", "com">>,
          <<"sa", "example", "com">>, <<"localhost">>}

\* Request paths as token sequences: "/" and the names between the slashes
Paths == {<<"/">>, <<"/", "api">>, <<"/", "api", "/">>, <<"/", "api", "/", "a">>,
          <<"/", "api", "/", "a", "/", "members">>, <<"/", "api", "/", "/", "a">>}

\* JavaScript truthiness of a string-or-undefined value
Truthy(v) == v # None /\ v # ""

\* String.prototype.split('/') over a tokenised path
RECURSIVE SplitPath(_)
SplitPath(p) ==
  IF p = <<>> THEN <<"">>
  ELSE IF Head(p) = "/" THEN <<"">> \o SplitPath(Tail(p))
  ELSE IF Len(p) = 1 THEN <<Head(p)>>
  ELSE <<Head(p)>> \o SplitPath(Tail(Tail(p)))

\* a[i] of a JavaScript array (0-based), undefined past the end
ArrayAt(a, i) == IF i + 1 <= Len(a) THEN a[i + 1] ELSE None

Extracted(lookup, key) == [status |-> 200, lookup |-> lookup, key |-> key]
BadRequest == [status |-> 400, lookup |-> "none", key |-> None]

PrimaryHeaderOnly(headers) == headers[HeaderNames[1]]

\* h['x-organization-id'] || h['organization-id'] || h['x-tenant-id'] || h['tenant-id']
HeaderIdentifier(headers) ==
  IF Truthy(headers[HeaderNames[1]]) THEN headers[HeaderNames[1]]
  ELSE IF Truthy(headers[HeaderNames[2]]) THEN headers[HeaderNames[2]]
  ELSE IF Truthy(headers[HeaderNames[3]]) THEN headers[HeaderNames[3]]
  ELSE headers[HeaderNames[4]]

ResolveTenantFromHeader(req) ==
  LET organizationId == HeaderIdentifier(req.headers) IN
  IF ~Truthy(organizationId) THEN BadRequest ELSE Extracted("byId", organizationId)

\* host?.split('.')[0], then the reserved labels
ResolveTenantFromSubdomain(req) ==
  LET subdomain == Head(req.host) IN
  IF ~Truthy(subdomain) \/ subdomain = "www" \/ subdomain = "api"
  THEN BadRequest ELSE Extracted("bySubdomain", subdomain)

\* req.path.split('/')[2]
ResolveTenantFromPath(req) ==
  LET organizationId == ArrayAt(SplitPath(req.path), 2) IN
  IF ~Truthy(organizationId) THEN BadRequest ELSE Extracted("byId", organizationId)

\* the switch of resolveTenant
ExtractIdentifier(strat, req) ==
  IF strat = "subdomain" THEN ResolveTenantFromSubdomain(req)
  ELSE IF strat = "path" THEN ResolveTenantFromPath(req)
  ELSE ResolveTenantFromHeader(req)

NotExtracted == [status |-> 0, lookup |-> "none", key |-> None]

IdentFrame ==
  UNCHANGED <<ctxVars, repoVars, tenantDocs, usageVars, rateVars, resolveVars, scopeVars, lateVars>>

\* resolveTenant reaches the lookup, or throws 400 before it
Extract ==
  /\ idOut = NotExtracted
  /\ idOut' = ExtractIdentifier(idStrategy, idReq)
  /\ UNCHANGED <<idStrategy, idReq>>
  /\ IdentFrame

----------------------------------------------------------------------------
(* Tenant resolution: createTenantMiddleware, TenantResolver and its cache   *)

CacheExpiry == 300000     \* this.cacheExpiry = 5 * 60 * 1000
CacheClockSteps == {1, 300000}
Resolvers == {"q1"}
CacheKeys == Tenants \cup {"ghost"}
Statuses == {"pending", "active", "suspended", "trial", "expired"}

NoDescriptor ==
  [exists |-> FALSE, tenantId |-> None, subdomain |-> None, status |-> None,
   isActive |-> FALSE, rev |-> 0]

\* Subdomain of each tenant in the Directory
SubdomainOf(t) == IF t = "a" THEN "sa" ELSE "sb"

\* A Directory record; rev stands for the values of all its other fields
DescriptorOf(t, status, isActive, rev) ==
  [exists |-> TRUE, tenantId |-> t, subdomain |-> SubdomainOf(t), status |-> status,
   isActive |-> isActive, rev |-> rev]

NoEntry == [has |-> FALSE, data |-> NoDescriptor, timestamp |-> 0]

\* skipRoutes passed by app.js, and a configuration that skips the health route only
AppSkipRoutes ==
  << <<"/", "health">>, <<"/", "api", "-docs">>, <<"/">>, <<"/", "api">>, <<"/", "favicon.ico">> >>
HealthOnlySkipRoutes == << <<"/", "health">> >>

NoHeaders == [h \in HeaderNameSet |-> None]

\* The requests: for tenant a, for tenant b, for an unknown tenant, without header and
\* subdomain identifier, without any identifier, health probe
Reqs ==
  [ra |-> [headers |-> [NoHeaders EXCEPT !["x-tenant-id"] = "a"],
           host |-> <<"sa", "example", "com">>, path |-> <<"/", "api", "/", "a", "/", "members">>],
   rb |-> [headers |-> [NoHeaders EXCEPT !["x-organization-id"] = "b"],
           host |-> <<"sb", "example", "com">>, path |-> <<"/", "api", "/", "b", "/", "members">>],
   rghost |-> [headers |-> [NoHeaders EXCEPT !["x-tenant-id"] = "ghost"],
               host |-> <<"ghost", "example", "com">>,
               path |-> <<"/", "api", "/", "ghost", "/", "members">>],
   rnoid |-> [headers |-> NoHeaders, host |-> <<"www", "example", "com">>,
              path |-> <<"/", "api", "/", "ghost", "/", "info">>],
   rmissing |-> [headers |-> NoHeaders, host |-> <<"www", "example", "com">>,
                 path |-> <<"/", "api">>],
   rhealth |-> [headers |-> NoHeaders, host |-> <<"www", "example", "com">>,
                path |-> <<"/", "health">>]]
ReqNames == DOMAIN Reqs

\* String.prototype.startsWith over tokenised paths
StartsWith(p, prefix) == Len(prefix) <= Len(p) /\ SubSeq(p, 1, Len(prefix)) = prefix

\* skipRoutes.some(route => req.path === route || req.path.startsWith(route))
Skipped(path, routes) ==
  \E i \in 1..Len(routes) : path = routes[i] \/ StartsWith(path, routes[i])

\* fetchOrganizationFromDatabase(organizationId)
FetchById(id) == IF id \in DOMAIN directory THEN directory[id] ELSE NoDescriptor

\* fetchOrganizationFromDatabaseBySubdomain(subdomain)
FetchBySubdomain(sub) ==
  IF \E t \in DOMAIN directory : directory[t].exists /\ directory[t].subdomain = sub
  THEN directory[CHOOSE t \in DOMAIN directory :
                   directory[t].exists /\ directory[t].subdomain = sub]
  ELSE NoDescriptor

CacheFreshInclusive(entry, at) == entry.has /\ at - entry.timestamp <= CacheExpiry

\* cached && Date.now() - cached.timestamp < this.cacheExpiry
CacheFresh(entry, at) == entry.has /\ at - entry.timestamp < CacheExpiry

AlwaysCache(info) == TRUE

\* if (organizationInfo) { this.tenantCache.set(...) }
ShouldCache(info) == info.exists

\* resolveTenant's checks on what the lookup returned: 404, 403, or the descriptor
ResolveStatus(info) ==
  IF ~info.exists THEN 404 ELSE IF ~info.isActive THEN 403 ELSE 200

IdleResolve ==
  [pc |-> "idle", req |-> None, skipped |-> FALSE, lookup |-> "none", key |-> None,
   data |-> NoDescriptor, sawYoung |-> FALSE, sawData |-> NoDescriptor, read |-> FALSE,
   recent |-> FALSE, afterClear |-> FALSE, dirRev |-> 0, error |-> 0, answer |-> 0,
   result |-> NoDescriptor, bound |-> NoDescriptor]

(* The middleware's outcome once resolveTenant has thrown status `error` or  *)
(* returned info: rethrow when required, else run(tenantInfo, next).         *)
Settled(rec, error, info) ==
  [rec EXCEPT !.pc = "done",
              !.error = error,
              !.result = IF error = 200 THEN info ELSE NoDescriptor,
              !.answer = IF error # 200 /\ required THEN error ELSE 200,
              !.bound = IF error = 200 THEN info ELSE NoDescriptor]

ResolveFrame ==
  UNCHANGED <<ctxVars, repoVars, tenantDocs, usageVars, rateVars, identVars, scopeVars, lateVars>>

\* Tenant of the Directory that a lookup key designates
TenantOfKey(lookup, key) ==
  IF lookup = "byId" THEN key
  ELSE IF key = "sa" THEN "a" ELSE IF key = "sb" THEN "b" ELSE "ghost"

(* A request enters the middleware: skip check, identifier extraction, cache *)
(* check and - on a miss - the Directory read, up to the await of the fetch. *)
MiddlewareEnter(k, rq) ==
  /\ resolves[k].pc = "idle"
  /\ LET req == Reqs[rq]
         base == [IdleResolve EXCEPT !.req = rq]
         out == ExtractIdentifier(strategy, req)
         t == TenantOfKey(out.lookup, out.key)
         seen == [base EXCEPT !.lookup = out.lookup, !.key = out.key,
                              !.recent = (t \in Tenants /\ lastResolved[t] >= 0
                                          /\ cacheNow - lastResolved[t] < 300000)] IN
     IF Skipped(req.path, skipRoutes)
     THEN /\ resolves' = [resolves EXCEPT ![k] =
                            [base EXCEPT !.pc = "done", !.skipped = TRUE, !.answer = 200]]
          /\ UNCHANGED invalidated
     ELSE IF out.status = 400
     THEN /\ resolves' = [resolves EXCEPT ![k] = Settled(base, 400, NoDescriptor)]
          /\ UNCHANGED invalidated
     ELSE IF out.lookup = "byId"
     THEN LET entry == tenantCache[out.key]
              young == entry.has /\ cacheNow - entry.timestamp < 300000
              looked == [seen EXCEPT !.sawYoung = young,
                                     !.sawData = IF young THEN entry.data ELSE NoDescriptor,
                                     !.afterClear = (out.key \in invalidated),
                                     !.dirRev = FetchById(out.key).rev] IN
          /\ invalidated' = invalidated \ {out.key}
          /\ IF CacheFresh(entry, cacheNow)
             THEN resolves' = [resolves EXCEPT ![k] =
                    Settled([looked EXCEPT !.data = entry.data],
                            ResolveStatus(entry.data), entry.data)]
             ELSE resolves' = [resolves EXCEPT ![k] =
                    [looked EXCEPT !.pc = "fetching", !.read = TRUE,
                                   !.data = FetchById(out.key)]]
     ELSE /\ resolves' = [resolves EXCEPT ![k] =
                 [seen EXCEPT !.pc = "fetching", !.read = TRUE,
                              !.data = FetchBySubdomain(out.key)]]
          /\ UNCHANGED invalidated
  /\ UNCHANGED <<strategy, skipRoutes, directory, tenantCache, cacheNow, cacheTicks,
                 lastResolved>>
  /\ ResolveFrame

(* The fetch has resolved: getOrganizationInfo stores what it read in the    *)
(* cache, resolveTenant checks it, the middleware binds it or fails.         *)
ResolveReturn(k) ==
  /\ resolves[k].pc = "fetching"
  /\ LET rec == resolves[k]
         info == rec.data
         status == ResolveStatus(info) IN
     /\ tenantCache' = IF rec.lookup = "byId" /\ ShouldCache(info)
                       THEN [tenantCache EXCEPT ![rec.key] =
                               [has |-> TRUE, data |-> info, timestamp |-> cacheNow]]
                       ELSE tenantCache
     /\ lastResolved' = IF status = 200 /\ rec.lookup = "bySubdomain"
                        THEN [lastResolved EXCEPT ![info.tenantId] = cacheNow]
                        ELSE lastResolved
     /\ resolves' = [resolves EXCEPT ![k] = Settled(rec, status, info)]
  /\ UNCHANGED <<strategy, skipRoutes, directory, cacheNow, cacheTicks, invalidated>>
  /\ ResolveFrame

\* The response is sent; the slot serves the next request
ResolveEnd(k) ==
  /\ resolves[k].pc = "done"
  /\ resolves' = [resolves EXCEPT ![k] = IdleResolve]
  /\ UNCHANGED <<strategy, skipRoutes, directory, tenantCache, cacheNow, cacheTicks,
                 invalidated, lastResolved>>
  /\ ResolveFrame

\* clearCache(tenantId): this.tenantCache.delete(tenantId)
ClearCache(id) ==
  /\ tenantCache' = [tenantCache EXCEPT ![id] = NoEntry]
  /\ invalidated' = invalidated \cup {id}
  /\ UNCHANGED <<strategy, skipRoutes, directory, cacheNow, cacheTicks, resolves, lastResolved>>
  /\ ResolveFrame

\* clearCache(): this.tenantCache.clear()
ClearCacheAll ==
  /\ tenantCache' = [id \in CacheKeys |-> NoEntry]
  /\ invalidated' = Tenants
  /\ UNCHANGED <<strategy, skipRoutes, directory, cacheNow, cacheTicks, resolves, lastResolved>>
  /\ ResolveFrame

\* The Directory record of a tenant is edited
DirectoryUpdate(t) ==
  /\ directory[t].rev < MaxRev
  /\ directory' = [directory EXCEPT ![t].rev = @ + 1]
  /\ UNCHANGED <<strategy, skipRoutes, tenantCache, cacheNow, cacheTicks, resolves,
                 invalidated, lastResolved>>
  /\ ResolveFrame

\* tenantSchema.methods.suspend
DirectorySuspend(t) ==
  /\ directory[t].isActive
  /\ directory' = [directory EXCEPT ![t].status = "suspended", ![t].isActive = FALSE]
  /\ UNCHANGED <<strategy, skipRoutes, tenantCache, cacheNow, cacheTicks, resolves,
                 invalidated, lastResolved>>
  /\ ResolveFrame

\* tenantSchema.methods.activate
DirectoryActivate(t) ==
  /\ directory[t].status # "active"
  /\ directory' = [directory EXCEPT ![t].status = "active", ![t].isActive = TRUE]
  /\ UNCHANGED <<strategy, skipRoutes, tenantCache, cacheNow, cacheTicks, resolves,
                 invalidated, lastResolved>>
  /\ ResolveFrame

CacheClockAdvance(d) ==
  /\ cacheTicks < MaxCacheTicks
  /\ cacheNow' = cacheNow + d
  /\ cacheTicks' = cacheTicks + 1
  /\ UNCHANGED <<strategy, skipRoutes, directory, tenantCache, resolves, invalidated,
                 lastResolved>>
  /\ ResolveFrame

----------------------------------------------------------------------------
(* Nested scopes: TenantContext.run / getCurrentTenant on one call chain     *)

ScopeDescriptors == Tenants \cup {"c"}

NoRead == [op |-> "none", value |-> None, origin |-> None]

KeepInner(saved, inner) == inner

\* AsyncLocalStorage.run restores the store it replaced when the callback returns or throws
StoreAfterExit(saved, inner) == saved

ScopeFrame ==
  UNCHANGED <<ctxVars, repoVars, tenantDocs, usageVars, rateVars, identVars, resolveVars, lateVars>>

\* run(tenantInfo, callback): the callback starts with tenantInfo as the store
ScopeRun(d) ==
  /\ Len(scopeSaved) < MaxDepth
  /\ scopeSaved' = Append(scopeSaved, scopeStore)
  /\ scopeStore' = d
  /\ scopeEnclosing' = Append(scopeEnclosing, d)
  /\ scopeLast' = NoRead
  /\ UNCHANGED scopeTasks
  /\ ScopeFrame

\* The innermost run() is left: how == "return" or "throw"
ScopeExit(how) ==
  /\ Len(scopeSaved) > 0
  /\ scopeStore' = StoreAfterExit(scopeSaved[Len(scopeSaved)], scopeStore)
  /\ scopeSaved' = SubSeq(scopeSaved, 1, Len(scopeSaved) - 1)
  /\ scopeEnclosing' = SubSeq(scopeEnclosing, 1, Len(scopeEnclosing) - 1)
  /\ scopeLast' = [op |-> how, value |-> None, origin |-> None]
  /\ UNCHANGED scopeTasks
  /\ ScopeFrame

\* getCurrentTenant() on the call chain
ScopeGetCurrentTenant ==
  /\ scopeLast' = [op |-> "getCurrentTenant", value |-> scopeStore, origin |-> None]
  /\ UNCHANGED <<scopeStore, scopeSaved, scopeEnclosing, scopeTasks>>
  /\ ScopeFrame

\* The callback starts an asynchronous continuation; it carries the store of its creation
ScopeSpawn ==
  /\ Len(scopeSaved) > 0
  /\ Cardinality(scopeTasks) < MaxTasks
  /\ scopeTasks' = scopeTasks \cup
       {[store |-> scopeStore, origin |-> scopeEnclosing[Len(scopeEnclosing)]]}
  /\ scopeLast' = NoRead
  /\ UNCHANGED <<scopeStore, scopeSaved, scopeEnclosing>>
  /\ ScopeFrame

\* A continuation runs once the call chain has left every run, and calls getCurrentTenant()
ScopeContinuation(task) ==
  /\ task \in scopeTasks
  /\ Len(scopeSaved) = 0
  /\ scopeTasks' = scopeTasks \ {task}
  /\ scopeLast' = [op |-> "continuation", value |-> task.store, origin |-> task.origin]
  /\ UNCHANGED <<scopeStore, scopeSaved, scopeEnclosing>>
  /\ ScopeFrame

----------------------------------------------------------------------------
(* Dedicated connections: getTenantDatabaseModel and closeTenantConnections  *)

Handles == 1..MaxConns

NoConnOp == [op |-> FALSE, by |-> None, handle |-> 0, created |-> FALSE,
             cachedBefore |-> FALSE, state |-> "unused"]

NoDrain == [ran |-> FALSE, raised |-> FALSE, atStart |-> {}, failures |-> 0, left |-> 0]

\* tenantConnections.has(tenantId)
CacheHas(cache, t) == \E i \in 1..Len(cache) : cache[i].tenantId = t

CacheGetFirst(cache, t) == cache[1].handle

\* tenantConnections.get(tenantId)
CacheGet(cache, t) == cache[CHOOSE i \in 1..Len(cache) : cache[i].tenantId = t].handle

\* tenantConnections.set(tenantId, connection): a new key goes to the end of the Map
CacheSet(cache, t, h) ==
  IF CacheHas(cache, t)
  THEN [i \in 1..Len(cache) |-> IF cache[i].tenantId = t
                                THEN [tenantId |-> t, handle |-> h] ELSE cache[i]]
  ELSE Append(cache, [tenantId |-> t, handle |-> h])

CachedHandles(cache) == {cache[i].handle : i \in 1..Len(cache)}

\* mongoose.createConnection: a handle that did not exist before
FreshHandle == CHOOSE h \in Handles : connState[h] = "unused" /\
                                      \A g \in Handles : connState[g] = "unused" => h <= g

AbortOnFailure(ok) == IF ok THEN "continue" ELSE "raise"

\* try { await connection.close() } catch (error) { logger.error(...) }: the loop goes on
AfterClose(ok) == "continue"

ConnFrame ==
  UNCHANGED <<ctxVars, repoVars, tenantDocs, usageVars, rateVars, identVars, resolveVars,
              scopeVars,
              shareVars,
              adminVars,
              pctVars>>

(* A data-access operation under tenant t's context with 'database' isolation: *)
(* getTenantDatabaseModel returns the model of the cached connection, or       *)
(* creates and caches one; the operation's query goes to that connection.      *)
ConnOperate(t) ==
  /\ IF CacheHas(connCache, t)
     THEN LET h == CacheGet(connCache, t) IN
          /\ connLast' = [op |-> TRUE, by |-> t, handle |-> h, created |-> FALSE,
                          cachedBefore |-> TRUE, state |-> connState[h]]
          /\ UNCHANGED <<connCache, connState, connOwner>>
     ELSE /\ \E h \in Handles : connState[h] = "unused"
          /\ LET h == FreshHandle IN
             /\ connState' = [connState EXCEPT ![h] = "open"]
             /\ connOwner' = [connOwner EXCEPT ![h] = t]
             /\ connCache' = CacheSet(connCache, t, h)
             /\ connLast' = [op |-> TRUE, by |-> t, handle |-> h, created |-> TRUE,
                             cachedBefore |-> FALSE, state |-> "open"]
  /\ UNCHANGED <<connDropped, drainPc, drainIdx, drainRuns, drainLast>>
  /\ ConnFrame

(* closeTenantConnections() is called: the iterator takes the first entry and *)
(* close() is called on it; with an empty Map the loop is skipped and clear() *)
(* runs at once.                                                              *)
DrainStart ==
  /\ drainPc = "idle"
  /\ drainRuns < MaxDrains
  /\ drainRuns' = drainRuns + 1
  /\ IF Len(connCache) = 0
     THEN /\ drainLast' = [ran |-> TRUE, raised |-> FALSE, atStart |-> {}, failures |-> 0,
                           left |-> 0]
          /\ UNCHANGED <<connCache, connState, connDropped, drainPc, drainIdx>>
     ELSE /\ connState' = [connState EXCEPT ![connCache[1].handle] = "closing"]
          /\ drainPc' = "awaiting"
          /\ drainIdx' = 1
          /\ drainLast' = [ran |-> FALSE, raised |-> FALSE,
                           atStart |-> CachedHandles(connCache), failures |-> 0, left |-> 0]
          /\ UNCHANGED <<connCache, connDropped>>
  /\ UNCHANGED <<connOwner, connLast>>
  /\ ConnFrame

(* The awaited close() resolves (ok) or rejects: the rejection is caught and  *)
(* logged. The iterator then takes the next entry of the Map as it is now -   *)
(* entries added during the await included - or, at the end, clear() empties  *)
(* the Map and the drain returns.                                             *)
DrainCloseSettles(ok) ==
  /\ drainPc = "awaiting"
  /\ LET h == connCache[drainIdx].handle
         settled == [connState EXCEPT ![h] = IF ok THEN "closed" ELSE "closeFailed"]
         failures == drainLast.failures + (IF ok THEN 0 ELSE 1) IN
     IF AfterClose(ok) = "raise"
     THEN /\ connState' = settled
          /\ drainPc' = "idle"
          /\ drainLast' = [drainLast EXCEPT !.ran = TRUE, !.raised = TRUE,
                                            !.failures = failures,
                                            !.left = Len(connCache)]
          /\ UNCHANGED <<connCache, connDropped, drainIdx>>
     ELSE IF drainIdx < Len(connCache)
     THEN /\ connState' = [settled EXCEPT ![connCache[drainIdx + 1].handle] = "closing"]
          /\ drainIdx' = drainIdx + 1
          /\ drainLast' = [drainLast EXCEPT !.failures = failures]
          /\ UNCHANGED <<connCache, connDropped, drainPc>>
     ELSE /\ connState' = settled
          /\ connDropped' = connDropped \cup CachedHandles(connCache)
          /\ connCache' = << >>
          /\ drainPc' = "idle"
          /\ drainIdx' = 0
          /\ drainLast' = [drainLast EXCEPT !.ran = TRUE, !.failures = failures, !.left = 0]
  /\ UNCHANGED <<connOwner, drainRuns, connLast>>
  /\ ConnFrame

----------------------------------------------------------------------------
(* Descriptor objects: what getOrganizationInfo hands out, what run() binds   *)
(* and what setCurrentTenant assigns to. Objects are identified by reference. *)

Refs == 1..MaxObjects
Original == "original"          \* the field as the Directory fetch produced it
Assigned == {"changed"}         \* values a setCurrentTenant(fields) call assigns

IdleShare == [pc |-> "idle", tenant |-> None, store |-> 0, assigned |-> FALSE, seen |-> {}]

\* The strategies whose lookup goes through getOrganizationInfo and its cache
CachingStrategy(strat) == strat \in {"header", "path"}

\* fetchOrganizationFromDatabase builds its result anew: an object no one else refers to
FreshRef == CHOOSE o \in Refs : shHeap[o] = None /\ \A g \in Refs : shHeap[g] = None => o <= g

\* Object.assign(store, tenantInfo): the object the store refers to is changed in place
ObjectAssign(heap, ref, value) == [heap EXCEPT ![ref] = value]

ShareFrame ==
  UNCHANGED <<ctxVars, repoVars, tenantDocs, usageVars, rateVars, identVars, resolveVars,
              scopeVars, connVars,
              adminVars,
              pctVars>>

(* The middleware resolves tenant t for request r and binds the result with  *)
(* run(tenantInfo, ...): a fresh cache entry's data object is returned as    *)
(* it is; otherwise the fetched object is returned and, for the cached       *)
(* strategies, also stored as the entry's data.                              *)
ShareResolve(r, t) ==
  /\ shReqs[r].pc = "idle"
  /\ IF CachingStrategy(shStrategy) /\ shCache[t] # 0
     THEN /\ shReqs' = [shReqs EXCEPT ![r] = [pc |-> "running", tenant |-> t,
                                              store |-> shCache[t], assigned |-> FALSE,
                                              seen |-> {}]]
          /\ UNCHANGED <<shHeap, shCache>>
     ELSE /\ \E o \in Refs : shHeap[o] = None
          /\ LET o == FreshRef IN
             /\ shHeap' = [shHeap EXCEPT ![o] = Original]
             /\ shCache' = IF CachingStrategy(shStrategy)
                           THEN [shCache EXCEPT ![t] = o] ELSE shCache
             /\ shReqs' = [shReqs EXCEPT ![r] = [pc |-> "running", tenant |-> t,
                                                 store |-> o, assigned |-> FALSE,
                                                 seen |-> {}]]
  /\ UNCHANGED shStrategy
  /\ ShareFrame

\* setCurrentTenant(fields) inside request r's scope
ShareSetCurrentTenant(r, value) ==
  /\ shReqs[r].pc = "running"
  /\ shHeap' = ObjectAssign(shHeap, shReqs[r].store, value)
  /\ shReqs' = [shReqs EXCEPT ![r].assigned = TRUE]
  /\ UNCHANGED <<shStrategy, shCache>>
  /\ ShareFrame

\* getCurrentTenant() inside request r's scope: the field as the bound object has it now
ShareGetCurrentTenant(r) ==
  /\ shReqs[r].pc = "running"
  /\ shReqs' = [shReqs EXCEPT ![r].seen = @ \cup {shHeap[shReqs[r].store]}]
  /\ UNCHANGED <<shStrategy, shHeap, shCache>>
  /\ ShareFrame

\* The request completes; its slot serves a later request
ShareEnd(r) ==
  /\ shReqs[r].pc = "running"
  /\ shReqs' = [shReqs EXCEPT ![r] = IdleShare]
  /\ UNCHANGED <<shStrategy, shHeap, shCache>>
  /\ ShareFrame

----------------------------------------------------------------------------
(* Tenant lifecycle: TenantService create / getById / update / delete /      *)
(* activate / suspend on the Tenant collection                               *)

Slots == 1..MaxSlots
TenantIds == Tenants
Subdomains == {"suba", "subb"}
UpdateData == [tenantId : TenantIds \cup {None}, subdomain : Subdomains \cup {None}]

NoTenant ==
  [exists |-> FALSE, tenantId |-> None, subdomain |-> None, status |-> "none",
   isActive |-> FALSE, isDeleted |-> FALSE, createdAs |-> None, createdSub |-> None]

\* new Tenant({...tenantData, status: 'pending'}): isActive and isDeleted take their defaults
NewTenant(id, sub) ==
  [exists |-> TRUE, tenantId |-> id, subdomain |-> sub, status |-> "pending",
   isActive |-> TRUE, isDeleted |-> FALSE, createdAs |-> id, createdSub |-> sub]

NoAdminOp == [op |-> "none", id |-> None, slot |-> 0, before |-> "none", result |-> None]

\* The stored, not soft-deleted document that carries a tenantId (0: none)
Live(reg, id) == {s \in Slots : reg[s].exists /\ ~reg[s].isDeleted /\ reg[s].tenantId = id}

\* tenantSchema.statics.findByTenantId: findOne({ tenantId, isActive: true })
TenantFindByTenantId(reg, id) ==
  {s \in Slots : reg[s].exists /\ reg[s].tenantId = id /\ reg[s].isActive}

\* checkTenantUniqueness: findOne({ $or: [{tenantId}, {'domain.subdomain'}], isDeleted: false })
TenantIdTaken(reg, id) == \E s \in Slots : reg[s].exists /\ ~reg[s].isDeleted /\ reg[s].tenantId = id

\* checkSubdomainUniqueness: findOne({ 'domain.subdomain': subdomain, isDeleted: false })
SubdomainTaken(reg, sub) ==
  \E s \in Slots : reg[s].exists /\ ~reg[s].isDeleted /\ reg[s].subdomain = sub

\* tenantSchema.methods.activate
Activated(doc) == [doc EXCEPT !.status = "active", !.isActive = TRUE]

\* tenantSchema.methods.suspend
Suspended(doc) == [doc EXCEPT !.status = "suspended", !.isActive = FALSE]

\* schema.methods.softDelete
SoftDeleted(doc) == [doc EXCEPT !.isDeleted = TRUE]

\* Object.assign(tenant, updateData) for the keys the payload carries
Assign(doc, data) ==
  [doc EXCEPT !.tenantId = IF data.tenantId # None THEN data.tenantId ELSE @,
              !.subdomain = IF data.subdomain # None THEN data.subdomain ELSE @]

\* What the call was aimed at: the live document with the id, its status before the call
Aim(op, id) ==
  LET live == Live(registry, id)
      s == IF live = {} THEN 0 ELSE CHOOSE x \in live : TRUE IN
  [op |-> op, id |-> id, slot |-> s,
   before |-> IF s = 0 THEN "none" ELSE registry[s].status, result |-> None]

AdminFrame ==
  UNCHANGED <<ctxVars, repoVars, tenantDocs, usageVars, rateVars, identVars, resolveVars,
              scopeVars, connVars, shareVars,
              pctVars>>

\* getById failed: 'Tenant not found', 404; nothing is written
AdminNotFound(op, id) ==
  /\ adminLast' = [Aim(op, id) EXCEPT !.result = "NotFound"]
  /\ UNCHANGED registry

\* TenantService.create(tenantData)
AdminCreate(id, sub) ==
  /\ IF TenantIdTaken(registry, id) \/ SubdomainTaken(registry, sub)
     THEN /\ adminLast' = [Aim("create", id) EXCEPT !.result = "Conflict"]
          /\ UNCHANGED registry
     ELSE /\ \E s \in Slots : ~registry[s].exists
          /\ LET s == CHOOSE x \in Slots : ~registry[x].exists IN
             /\ registry' = [registry EXCEPT ![s] = NewTenant(id, sub)]
             /\ adminLast' = [Aim("create", id) EXCEPT !.slot = s, !.result = "ok"]
  /\ AdminFrame

\* TenantService.getById(tenantId)
AdminGetById(id) ==
  /\ IF TenantFindByTenantId(registry, id) = {} THEN AdminNotFound("getById", id)
     ELSE /\ adminLast' = [Aim("getById", id) EXCEPT !.result = "ok"]
          /\ UNCHANGED registry
  /\ AdminFrame

\* TenantService.activate(tenantId): getById, then tenant.activate()
AdminActivate(id) ==
  /\ IF TenantFindByTenantId(registry, id) = {} THEN AdminNotFound("activate", id)
     ELSE \E s \in TenantFindByTenantId(registry, id) :
            /\ registry' = [registry EXCEPT ![s] = Activated(@)]
            /\ adminLast' = [Aim("activate", id) EXCEPT !.result = "ok"]
  /\ AdminFrame

\* TenantService.suspend(tenantId, reason): getById, then tenant.suspend(reason)
AdminSuspend(id) ==
  /\ IF TenantFindByTenantId(registry, id) = {} THEN AdminNotFound("suspend", id)
     ELSE \E s \in TenantFindByTenantId(registry, id) :
            /\ registry' = [registry EXCEPT ![s] = Suspended(@)]
            /\ adminLast' = [Aim("suspend", id) EXCEPT !.result = "ok"]
  /\ AdminFrame

\* TenantService.delete(tenantId): getById, tenant.softDelete(), archiveTenantData
AdminDelete(id) ==
  /\ IF TenantFindByTenantId(registry, id) = {} THEN AdminNotFound("delete", id)
     ELSE \E s \in TenantFindByTenantId(registry, id) :
            /\ registry' = [registry EXCEPT ![s] = SoftDeleted(@)]
            /\ adminLast' = [Aim("delete", id) EXCEPT !.slot = s, !.result = "ok"]
  /\ AdminFrame

(* TenantService.update(tenantId, updateData): getById, the uniqueness checks *)
(* for a tenantId or subdomain that differs, Object.assign, save.             *)
AdminUpdate(id, data) ==
  /\ IF TenantFindByTenantId(registry, id) = {} THEN AdminNotFound("update", id)
     ELSE \E s \in TenantFindByTenantId(registry, id) :
            IF \/ (data.tenantId # None /\ data.tenantId # id
                     /\ TenantIdTaken(registry, data.tenantId))
               \/ (data.subdomain # None /\ data.subdomain # registry[s].subdomain
                     /\ SubdomainTaken(registry, data.subdomain))
            THEN /\ adminLast' = [Aim("update", id) EXCEPT !.result = "Conflict"]
                 /\ UNCHANGED registry
            ELSE /\ registry' = [registry EXCEPT ![s] = Assign(@, data)]
                 /\ adminLast' = [Aim("update", id) EXCEPT !.slot = s, !.result = "ok"]
  /\ AdminFrame

----------------------------------------------------------------------------
(* usagePercentage: the Tenant and Organization virtuals                     *)

UsageValues == 0..MaxUsage
LimitValues == Unlimited..MaxLimit

NotReported == [source |-> "none", kind |-> "number", value |-> 0]

\* A JavaScript number: finite, or Infinity, or NaN
Finite(n) == [kind |-> "number", value |-> n]

\* Math.round(n / d) for d # 0: the nearest integer, halves towards +Infinity
MathRound(n, d) ==
  IF d > 0 THEN (2 * n + d) \div (2 * d)
  ELSE ((-2) * n - d) \div ((-2) * d)

\* tenantSchema.virtual('usagePercentage'): Math.round((usage / limit) * 100)
TenantUsagePercentage(usage, limit) ==
  IF limit = 0
  THEN (IF usage = 0 THEN [kind |-> "NaN", value |-> 0] ELSE [kind |-> "Infinity", value |-> 0])
  ELSE Finite(MathRound(100 * usage, limit))

\* organizationSchema.virtual('usagePercentage'): limit > 0 ? Math.round(...) : 0
OrganizationUsagePercentage(usage, limit) ==
  IF limit > 0 THEN Finite(MathRound(100 * usage, limit)) ELSE Finite(0)

PctFrame ==
  UNCHANGED <<ctxVars, repoVars, tenantDocs, usageVars, rateVars, identVars, resolveVars,
              scopeVars, connVars, shareVars, adminVars>>

\* TenantService.getUsageStats: usagePercentage: tenant.usagePercentage
GetUsageStats ==
  /\ pctOut' = [source |-> "tenant"] @@ TenantUsagePercentage(pctUsage, pctQuota)
  /\ UNCHANGED <<pctUsage, pctQuota>>
  /\ PctFrame

\* An Organization document's usagePercentage is read
OrganizationStats ==
  /\ pctOut' = [source |-> "organization"] @@ OrganizationUsagePercentage(pctUsage, pctQuota)
  /\ UNCHANGED <<pctUsage, pctQuota>>
  /\ PctFrame

----------------------------------------------------------------------------
(* Initial states *)

CtxIdle ==
  /\ alsStore = [r \in Requests |-> None]
  /\ reqPc = [r \in Requests |-> "idle"]
  /\ reqBound = [r \in Requests |-> None]
  /\ reqSeen = [r \in Requests |-> {}]
  /\ reqAwaits = [r \in Requests |-> 0]

RepoEmpty ==
  /\ collections = [c \in CollNames |-> {}]
  /\ tenantConnections = {}
  /\ nextId = 1
  /\ last = NoOp

UsageIdle ==
  /\ userRecords = [t \in CallTenants |-> 0]
  /\ memberRecords = [t \in CallTenants |-> 0]
  /\ calls = [c \in Calls |-> IdleCall]
  /\ started = 0
  /\ acct = [ty \in Types |-> 0]

RateIdle ==
  /\ now = StartTime
  /\ ticks = 0
  /\ tenantLimits = [t \in Tenants |-> NoLimitInfo]
  /\ rlLast = NoAnswer
  /\ winAnchor = [t \in Tenants |-> -1]
  /\ winSeen = [t \in Tenants |-> 0]

IdentIdle ==
  /\ idStrategy = "header"
  /\ idReq = [headers |-> [h \in HeaderNameSet |-> None], host |-> <<None>>, path |-> <<"/">>]
  /\ idOut = NotExtracted

RateUnused ==
  /\ rlConfig = [t \in Tenants |-> 0]
  /\ RateIdle

\* createTenantMiddleware options: app.js's, and options that skip the health route only
MiddlewareOptions ==
  {<<"header", AppSkipRoutes, TRUE>>,
   <<"header", HealthOnlySkipRoutes, TRUE>>, <<"header", HealthOnlySkipRoutes, FALSE>>,
   <<"subdomain", HealthOnlySkipRoutes, TRUE>>, <<"path", HealthOnlySkipRoutes, TRUE>>}

\* Statuses a stored tenant can carry, with the isActive flag the model's methods leave
StoredStates ==
  {<<"pending", TRUE>>, <<"active", TRUE>>, <<"trial", TRUE>>, <<"expired", TRUE>>,
   <<"suspended", FALSE>>}

ResolveIdle ==
  /\ tenantCache = [id \in CacheKeys |-> NoEntry]
  /\ cacheNow = StartTime
  /\ cacheTicks = 0
  /\ resolves = [k \in Resolvers |-> IdleResolve]
  /\ invalidated = {}
  /\ lastResolved = [t \in Tenants |-> -1]

ResolveUnused ==
  /\ strategy = "header"
  /\ skipRoutes = AppSkipRoutes
  /\ directory = [t \in Tenants |-> DescriptorOf(t, "active", TRUE, 1)]
  /\ ResolveIdle

ScopeIdle ==
  /\ scopeStore = None
  /\ scopeSaved = <<>>
  /\ scopeEnclosing = <<>>
  /\ scopeTasks = {}
  /\ scopeLast = NoRead

ConnIdle ==
  /\ connCache = << >>
  /\ connState = [h \in Handles |-> "unused"]
  /\ connOwner = [h \in Handles |-> None]
  /\ connDropped = {}
  /\ drainPc = "idle"
  /\ drainIdx = 0
  /\ drainRuns = 0
  /\ drainLast = NoDrain
  /\ connLast = NoConnOp

ShareIdle ==
  /\ shStrategy = "header"
  /\ shHeap = [o \in Refs |-> None]
  /\ shCache = [t \in Tenants |-> 0]
  /\ shReqs = [r \in Requests |-> IdleShare]

AdminIdle ==
  /\ registry = [s \in Slots |-> NoTenant]
  /\ adminLast = NoAdminOp

PctIdle ==
  /\ pctUsage = 0
  /\ pctQuota = 1
  /\ pctOut = NotReported

LateIdle ==
  /\ ConnIdle
  /\ ShareIdle
  /\ AdminIdle
  /\ PctIdle

ExtIdle ==
  /\ RateUnused
  /\ IdentIdle
  /\ ResolveUnused
  /\ ScopeIdle
  /\ LateIdle

\* The directory holds tenants a and b, active, with the given limits
Directory(q) ==
  [id \in DirIds |-> IF id \in Tenants THEN TenantDoc("active", UniformLimits(q))
                    ELSE AbsentDoc]

InitCtx ==
  /\ required \in BOOLEAN
  /\ CtxIdle
  /\ isoStrategy = [t \in Tenants |-> "database"]
  /\ RepoEmpty
  /\ tenantDocs = Directory(MaxQuota)
  /\ UsageIdle
  /\ ExtIdle

InitRepo ==
  /\ required = TRUE
  /\ CtxIdle
  /\ isoStrategy \in [Tenants -> Strategies]
  /\ RepoEmpty
  /\ tenantDocs = Directory(MaxQuota)
  /\ UsageIdle
  /\ ExtIdle

InitUsage ==
  /\ required = TRUE
  /\ CtxIdle
  /\ isoStrategy = [t \in Tenants |-> "database"]
  /\ RepoEmpty
  /\ \E q \in QuotaValues : tenantDocs = Directory(q)
  /\ UsageIdle
  /\ ExtIdle

InitRate ==
  /\ required = TRUE
  /\ CtxIdle
  /\ isoStrategy = [t \in Tenants |-> "database"]
  /\ RepoEmpty
  /\ tenantDocs = Directory(MaxQuota)
  /\ UsageIdle
  /\ rlConfig \in {c \in [Tenants -> Budgets] : c["a"] # 0}
  /\ RateIdle
  /\ IdentIdle
  /\ ResolveUnused
  /\ ScopeIdle
  /\ LateIdle

InitIdent ==
  /\ required = TRUE
  /\ CtxIdle
  /\ isoStrategy = [t \in Tenants |-> "database"]
  /\ RepoEmpty
  /\ tenantDocs = Directory(MaxQuota)
  /\ UsageIdle
  /\ RateUnused
  /\ idStrategy \in ResolveStrategies
  /\ idReq \in [headers : HeaderSets, host : Hosts, path : Paths]
  /\ idOut = NotExtracted
  /\ ResolveUnused
  /\ ScopeIdle
  /\ LateIdle

InitResolve ==
  /\ CtxIdle
  /\ isoStrategy = [t \in Tenants |-> "database"]
  /\ RepoEmpty
  /\ tenantDocs = Directory(MaxQuota)
  /\ UsageIdle
  /\ RateUnused
  /\ IdentIdle
  /\ \E o \in MiddlewareOptions : strategy = o[1] /\ skipRoutes = o[2] /\ required = o[3]
  /\ \E st \in StoredStates :
       directory = [t \in Tenants |-> IF t = "a" THEN DescriptorOf(t, "active", TRUE, 1)
                                      ELSE DescriptorOf(t, st[1], st[2], 1)]
  /\ ResolveIdle
  /\ ScopeIdle
  /\ LateIdle

InitScope ==
  /\ required = TRUE
  /\ CtxIdle
  /\ isoStrategy = [t \in Tenants |-> "database"]
  /\ RepoEmpty
  /\ tenantDocs = Directory(MaxQuota)
  /\ UsageIdle
  /\ ExtIdle

\* Every machine of the first seven at rest
EarlyIdle ==
  /\ required = TRUE
  /\ CtxIdle
  /\ isoStrategy = [t \in Tenants |-> "database"]
  /\ RepoEmpty
  /\ tenantDocs = Directory(MaxQuota)
  /\ UsageIdle
  /\ RateUnused
  /\ IdentIdle
  /\ ResolveUnused
  /\ ScopeIdle

InitConn ==
  /\ EarlyIdle
  /\ LateIdle

InitShare ==
  /\ EarlyIdle
  /\ ConnIdle
  /\ AdminIdle
  /\ PctIdle
  /\ shStrategy \in ResolveStrategies
  /\ shHeap = [o \in Refs |-> None]
  /\ shCache = [t \in Tenants |-> 0]
  /\ shReqs = [r \in Requests |-> IdleShare]

InitUsers ==
  /\ required = TRUE
  /\ CtxIdle
  /\ isoStrategy = [t \in Tenants |-> "database"]
  /\ RepoEmpty
  /\ \E q \in QuotaValues : tenantDocs = Directory(q)
  /\ UsageIdle
  /\ ExtIdle

\* Tenant a has been provisioned by TenantService.create
InitAdmin ==
  /\ EarlyIdle
  /\ ConnIdle
  /\ ShareIdle
  /\ PctIdle
  /\ registry = [s \in Slots |-> IF s = 1 THEN NewTenant("a", "suba") ELSE NoTenant]
  /\ adminLast = NoAdminOp

InitPct ==
  /\ EarlyIdle
  /\ ConnIdle
  /\ ShareIdle
  /\ AdminIdle
  /\ pctUsage \in UsageValues
  /\ pctQuota \in LimitValues
  /\ pctOut = NotReported

----------------------------------------------------------------------------
(* Specifications *)

NextCtx ==
  \/ \E r \in Requests, hdr \in HeaderVals, skip \in BOOLEAN : TenantMiddleware(r, hdr, skip)
  \/ \E r \in Requests : HandlerResume(r)
  \/ \E r \in Requests : HandlerFinish(r)
  \/ \E r \in Requests : RequestEnd(r)

SpecCtx == InitCtx /\ [][NextCtx]_vars

NextRepo ==
  \/ \E cur \in Tenants \cup {None}, data \in Payloads : RepoCreate(cur, data)
  \/ \E cur \in Tenants \cup {None}, id \in RecordIds : RepoFindById(cur, id)
  \/ \E cur \in Tenants \cup {None}, q \in Queries : RepoFindOne(cur, q)
  \/ \E cur \in Tenants \cup {None}, q \in Queries : RepoFind(cur, q)
  \/ \E cur \in Tenants \cup {None}, id \in RecordIds, data \in Payloads :
       RepoUpdateById(cur, id, data)
  \/ \E cur \in Tenants \cup {None}, q \in Queries, data \in Payloads :
       RepoUpdateOne(cur, q, data)
  \/ \E cur \in Tenants \cup {None}, id \in RecordIds : RepoDeleteById(cur, id)
  \/ \E cur \in Tenants \cup {None}, q \in Queries : RepoDeleteOne(cur, q)
  \/ \E cur \in Tenants \cup {None}, q \in Queries : RepoCount(cur, q)
  \/ \E cur \in Tenants \cup {None}, q \in Queries : RepoExists(cur, q)
  \/ \E cur \in Tenants \cup {None}, pipeline \in Pipelines : RepoAggregate(cur, pipeline)
  \/ \E cur \in Tenants \cup {None}, id \in DirIds : TenantRepoCreate(cur, id)

SpecRepo == InitRepo /\ [][NextRepo]_vars

NextUsage ==
  \/ \E c \in Calls, t \in CallTenants, type \in Types : StartUpdateUsage(c, t, type)
  \/ \E c \in Calls, t \in CallTenants : StartCreateUser(c, t)
  \/ \E c \in Calls : ValidateTenantCapacity(c)
  \/ \E c \in Calls : SaveUser(c)
  \/ \E c \in Calls : UpdateUsageRead(c)
  \/ \E c \in Calls : UpdateUsageCheck(c)
  \/ \E c \in Calls : UpdateUsageSave(c)
  \/ \E c \in Calls, t \in CallTenants : CreateMember(c, t)
  \/ \E c \in Calls : CallReturn(c)

SpecUsage == InitUsage /\ [][NextUsage]_vars

NextRate ==
  \/ \E cur \in Tenants \cup {None} : TenantRateLimit(cur)
  \/ \E d \in ClockSteps : ClockAdvance(d)

SpecRate == InitRate /\ [][NextRate]_vars

NextIdent == Extract

SpecIdent == InitIdent /\ [][NextIdent]_vars

NextResolve ==
  \/ \E k \in Resolvers, rq \in ReqNames : MiddlewareEnter(k, rq)
  \/ \E k \in Resolvers : ResolveReturn(k)
  \/ \E k \in Resolvers : ResolveEnd(k)
  \/ \E id \in Tenants : ClearCache(id)
  \/ ClearCacheAll
  \/ DirectoryUpdate("a")
  \/ DirectorySuspend("b")
  \/ DirectoryActivate("b")
  \/ \E d \in CacheClockSteps : CacheClockAdvance(d)

SpecResolve == InitResolve /\ [][NextResolve]_vars

NextScope ==
  \/ \E d \in ScopeDescriptors : ScopeRun(d)
  \/ \E how \in {"return", "throw"} : ScopeExit(how)
  \/ ScopeGetCurrentTenant
  \/ ScopeSpawn
  \/ \E task \in scopeTasks : ScopeContinuation(task)

SpecScope == InitScope /\ [][NextScope]_vars

NextConn ==
  \/ \E t \in Tenants : ConnOperate(t)
  \/ DrainStart
  \/ \E ok \in BOOLEAN : DrainCloseSettles(ok)

SpecConn == InitConn /\ [][NextConn]_vars

NextShare ==
  \/ \E r \in Requests, t \in Tenants : ShareResolve(r, t)
  \/ \E r \in Requests, value \in Assigned : ShareSetCurrentTenant(r, value)
  \/ \E r \in Requests : ShareGetCurrentTenant(r)
  \/ \E r \in Requests : ShareEnd(r)

SpecShare == InitShare /\ [][NextShare]_vars

\* The calls that create and delete users, and the steps they go through
NextUsers ==
  \/ \E c \in Calls, t \in CallTenants : StartCreateUser(c, t)
  \/ \E c \in Calls : ValidateTenantCapacity(c)
  \/ \E c \in Calls : SaveUser(c)
  \/ \E c \in Calls, t \in CallTenants, allowed \in BOOLEAN : StartDeleteUser(c, t, allowed)
  \/ \E c \in Calls : SoftDelete(c)
  \/ \E c \in Calls : UpdateUsageRead(c)
  \/ \E c \in Calls : UpdateUsageCheck(c)
  \/ \E c \in Calls : UpdateUsageSave(c)
  \/ \E c \in Calls : CallReturn(c)

SpecUsers == InitUsers /\ [][NextUsers]_vars

NextAdmin ==
  \/ \E id \in TenantIds, sub \in Subdomains : AdminCreate(id, sub)
  \/ \E id \in TenantIds : AdminGetById(id)
  \/ \E id \in TenantIds : AdminActivate(id)
  \/ \E id \in TenantIds : AdminSuspend(id)
  \/ \E id \in TenantIds : AdminDelete(id)
  \/ \E id \in TenantIds, data \in UpdateData : AdminUpdate(id, data)

SpecAdmin == InitAdmin /\ [][NextAdmin]_vars

NextPct ==
  \/ GetUsageStats
  \/ OrganizationStats

SpecPct == InitPct /\ [][NextPct]_vars

----------------------------------------------------------------------------
(* Properties *)

ReadOps == {"findById", "findOne", "find", "count", "exists", "aggregate"}
Quiet == \A c \in Calls : calls[c].pc \in {"idle", "done"}

(* C1: every getCurrentTenant() result a request has obtained, at any point  *)
(* of its execution and after any suspension, is the descriptor the          *)
(* middleware bound for that request, never another request's.               *)
C1_OwnDescriptorOnly ==
  \A r \in Requests :
    reqPc[r] \in {"suspended", "done"} => reqSeen[r] \subseteq {reqBound[r]}

\* Two requests bound to different tenants are in flight, both past a suspension
C1_Witness ==
  /\ reqPc["r1"] = "suspended" /\ reqPc["r2"] = "suspended"
  /\ reqBound["r1"] = "a" /\ reqBound["r2"] = "b"
  /\ reqAwaits["r1"] >= 1 /\ reqAwaits["r2"] >= 1
  /\ reqSeen["r1"] = {"a"} /\ reqSeen["r2"] = {"b"}

(* C2: when every tenant is under row-level isolation, a read executed while *)
(* bound to tenant U returns, matches or counts only records that were       *)
(* created while bound to U.                                                 *)
C2_NoCrossTenantRead ==
  (/\ last.op \in ReadOps
   /\ last.error = None
   /\ \A t \in Tenants : isoStrategy[t] = "row")
  => \A rec \in last.matched : rec.creator = last.by

(* C3: every repository operation that ran was routed to the bound tenant's  *)
(* dedicated connection, or to its namespaced collection, or carried the     *)
(* tenantId = current condition; none ran unscoped on the shared model.      *)
C3_AlwaysScoped ==
  (/\ last.op # "none"
   /\ last.repo = "TenantAwareRepository"
   /\ last.error = None)
  => \/ last.coll = <<"dedicated", last.by>>
     \/ last.coll = <<"namespace", last.by>>
     \/ last.filtered

(* C4 as stated: every data-access operation of a tenant-aware repository,   *)
(* TenantRepository's included, fails with ContextRequired and touches no    *)
(* store when no descriptor is bound.                                        *)
C4_Original ==
  (last.op # "none" /\ last.by = None)
  => (last.error = "ContextRequired" /\ ~last.touched)

(* C4 amended: every operation of TenantAwareRepository invoked while no     *)
(* descriptor is bound fails with ContextRequired before any read or write   *)
(* reaches a store; TenantRepository.create is the exception.                *)
C4_ContextRequired ==
  (last.op # "none" /\ last.by = None /\ last.repo = "TenantAwareRepository")
  => (last.error = "ContextRequired" /\ ~last.touched)

\* A find without a bound descriptor has failed while the shared collection holds a record
C4_Witness ==
  /\ last.op = "find" /\ last.by = None
  /\ last.error = "ContextRequired"
  /\ collections[<<"shared", None>>] # {}

(* C5: once all updateUsage(T, 'members', +1) calls have completed, the      *)
(* stored members counter equals the number of calls that succeeded.         *)
C5_NoLostIncrements ==
  Quiet => tenantDocs["a"].usage.currentMembers = acct["members"]

(* C6: for a finite quota q the stored counter never exceeds q, and every    *)
(* update is applied as one atomic step with its check: at the moment it is  *)
(* written, stored + delta <= q and the counter moves by exactly delta.      *)
C6_CheckAndIncrementAtomic ==
  [][\A c \in Calls :
       (calls[c].pc = "uu_save" /\ calls'[c].pc = "done") =>
         LET t == calls[c].tenant
             f == UsageField(calls[c].type)
             q == tenantDocs[t].limits[LimitField(calls[c].type)] IN
         q # Unlimited =>
           /\ tenantDocs[t].usage[f] + calls[c].delta <= q
           /\ tenantDocs'[t].usage[f] = tenantDocs[t].usage[f] + calls[c].delta
           /\ tenantDocs'[t].usage[f] <= q]_vars

(* C7: for every type, an updateUsage call that finds the quota finite and   *)
(* current + delta > quota ends with QuotaExceeded and never saves.          *)
C7_RejectedWhenOver ==
  \A c \in Calls :
    calls[c].over => (calls[c].pc = "done" /\ calls[c].result = "QuotaExceeded")

(* C8: a create of a user or member record, made when the tenant's usage of  *)
(* that resource has reached its finite quota, ends with QuotaExceeded and   *)
(* has written no record.                                                    *)
C8_CreateRejectedAtQuota ==
  \A c \in Calls :
    (calls[c].kind \in {"createUser", "createMember"} /\ calls[c].full)
    => (calls[c].pc = "done" /\ calls[c].result = "QuotaExceeded" /\ ~calls[c].wrote)

(* C9: a create call that has ended with QuotaExceeded has persisted no      *)
(* record.                                                                   *)
C9_RejectionWritesNothing ==
  \A c \in Calls :
    (calls[c].kind = "createUser" /\ calls[c].pc = "done"
     /\ calls[c].result = "QuotaExceeded")
    => ~calls[c].wrote

C11_FirstBudgetAllowed ==
  rlLast.tenant \in Tenants =>
    /\ rlLast.status \in {200, 429}
    /\ rlLast.status = 200 <=>
         winSeen[rlLast.tenant] <= (IF rlConfig[rlLast.tenant] = 0 THEN 100
                                    ELSE rlConfig[rlLast.tenant])

\* Tenant a (budget 2) made the first request of a new window, opened after its earlier
\* window had elapsed, and was allowed; tenant b has been served in between
C11_Witness ==
  /\ rlConfig["a"] = 2
  /\ rlLast.tenant = "a" /\ rlLast.status = 200
  /\ winAnchor["a"] > StartTime + WindowSize
  /\ winSeen["a"] = 1
  /\ winSeen["b"] >= 1 /\ winAnchor["b"] < winAnchor["a"]

(* C12: a rejection's retryAfter is the time from the rejected request to    *)
(* the end of the tenant's own window - one window length after the tenant's *)
(* first request of that window - in whole seconds rounded up, between 0 and *)
(* the window length.                                                        *)
C12_RetryAfterRemaining ==
  rlLast.status = 429 =>
    LET remaining == winAnchor[rlLast.tenant] + 60000 - now IN
    /\ 0 <= rlLast.retryAfter /\ rlLast.retryAfter <= 60
    /\ (rlLast.retryAfter - 1) * 1000 < remaining
    /\ remaining <= rlLast.retryAfter * 1000

\* A rejection 400 ms into a's window (59.6 s remain, retryAfter 60) while b's window
\* started at another instant
C12_Witness ==
  /\ rlLast.status = 429 /\ rlLast.tenant = "a"
  /\ now = winAnchor["a"] + 400
  /\ rlLast.retryAfter = 60
  /\ winAnchor["b"] >= 0 /\ winAnchor["b"] # winAnchor["a"]

(* C18: resolve fails with 400, and reaches no Directory lookup, exactly     *)
(* when the identifier of the configured strategy is missing or reserved:    *)
(* header - none of the four headers carries a value; subdomain - the host's *)
(* leading label is absent or is www or api; path - segment 2 of the split   *)
(* path is absent.                                                           *)
C18_MissingIdentifier ==
  idOut.status # 0 =>
    LET hs == idReq.headers
        noHeader == \A h \in {"x-organization-id", "organization-id", "x-tenant-id", "tenant-id"} :
                      hs[h] \in {None, ""}
        label == idReq.host[1]
        noLabel == label \in {None, "", "www", "api"}
        parts == SplitPath(idReq.path)
        noSegment == Len(parts) < 3 \/ parts[3] = ""
        missing == CASE idStrategy = "header" -> noHeader
                     [] idStrategy = "subdomain" -> noLabel
                     [] idStrategy = "path" -> noSegment IN
    /\ idOut.status = 400 <=> missing
    /\ idOut.status = 400 => idOut.lookup = "none"
    /\ idOut.status # 400 => (idOut.status = 200 /\ idOut.lookup # "none")

\* Only the last legacy alias carries the identifier, and the header strategy extracted it
C18_Witness ==
  /\ idStrategy = "header"
  /\ idReq.headers["x-organization-id"] = None
  /\ idReq.headers["organization-id"] = ""
  /\ idReq.headers["x-tenant-id"] = None
  /\ idReq.headers["tenant-id"] = "a"
  /\ idOut.status = 200 /\ idOut.key = "a"

(* C13: under the header and path strategies a resolve reads the Directory   *)
(* exactly when the cache held no entry for the id younger than 5 minutes;   *)
(* otherwise it obtains the cached descriptor, whatever the Directory holds  *)
(* by then.                                                                  *)
C13_ReadIffNoFreshEntry ==
  \A k \in Resolvers :
    (resolves[k].pc \in {"fetching", "done"} /\ resolves[k].lookup = "byId") =>
      /\ resolves[k].read <=> ~resolves[k].sawYoung
      /\ resolves[k].sawYoung => resolves[k].data = resolves[k].sawData
      /\ (resolves[k].pc = "done" /\ resolves[k].error = 200)
           => resolves[k].result = resolves[k].data

\* A resolve of tenant a was served from the cache, without a Directory read, with the
\* descriptor cached before the Directory record was edited
C13_Witness ==
  /\ resolves["q1"].pc = "done" /\ resolves["q1"].key = "a"
  /\ resolves["q1"].lookup = "byId"
  /\ ~resolves["q1"].read /\ resolves["q1"].error = 200
  /\ resolves["q1"].result.rev = 1 /\ resolves["q1"].dirRev = 2

(* C14: under the subdomain strategy a resolve of a tenant that was resolved *)
(* successfully less than 5 minutes earlier performs no Directory read.      *)
C14_SubdomainCached ==
  \A k \in Resolvers :
    (resolves[k].lookup = "bySubdomain" /\ resolves[k].recent) => ~resolves[k].read

(* C15: a clearCache(id) step removes the entry of id and changes no other   *)
(* entry, a clearCache() step removes every entry, and the first resolve of  *)
(* an invalidated id started after the call reads the Directory and returns  *)
(* the descriptor it read.                                                   *)
C15_ClearCache ==
  [][/\ \A id \in Tenants :
          ClearCache(id) => /\ ~tenantCache'[id].has
                            /\ \A o \in CacheKeys \ {id} : tenantCache'[o] = tenantCache[o]
     /\ ClearCacheAll => \A o \in CacheKeys : ~tenantCache'[o].has
     /\ \A k \in Resolvers :
          resolves'[k].afterClear =>
            /\ resolves'[k].read
            /\ (resolves'[k].pc = "done" /\ resolves'[k].error = 200)
                 => resolves'[k].result = resolves'[k].data]_vars

(* C16: a resolve of an identifier that the Directory does not hold reads    *)
(* the Directory, fails with 404, hands no descriptor to the request, and    *)
(* leaves no cache entry for the identifier.                                 *)
C16_UnknownNotFound ==
  /\ ~tenantCache["ghost"].has
  /\ \A k \in Resolvers :
       (resolves[k].lookup # "none" /\ resolves[k].key = "ghost") =>
         /\ resolves[k].read
         /\ resolves[k].pc = "done" =>
              /\ resolves[k].error = 404
              /\ ~resolves[k].result.exists /\ ~resolves[k].bound.exists
              /\ required => resolves[k].answer = 404

\* A resolve of ghost by tenant id has failed with 404 after tenant a was cached
C16_Witness ==
  /\ resolves["q1"].pc = "done" /\ resolves["q1"].key = "ghost"
  /\ resolves["q1"].lookup = "byId" /\ resolves["q1"].error = 404
  /\ tenantCache["a"].has

(* C17: a resolve returns a descriptor only if the descriptor's status is    *)
(* active or trial; for pending, suspended and expired it fails with 403.    *)
C17_ActiveOrTrialOnly ==
  \A k \in Resolvers :
    (resolves[k].pc = "done" /\ resolves[k].lookup # "none" /\ resolves[k].data.exists) =>
      /\ resolves[k].error = 200 => resolves[k].result.status \in {"active", "trial"}
      /\ resolves[k].data.status \in {"pending", "suspended", "expired"}
           => resolves[k].error = 403

(* C19: with resolution required and app.js's skip routes, a request whose   *)
(* path is none of the skip routes goes through the resolver: it is answered *)
(* 400 without identifier, 404 for an unknown tenant, and its handler runs   *)
(* only with the resolved descriptor bound.                                  *)
C19_ResolvedBeforeHandler ==
  \A k \in Resolvers :
    (/\ required
     /\ skipRoutes = << <<"/", "health">>, <<"/", "api", "-docs">>, <<"/">>, <<"/", "api">>,
                        <<"/", "favicon.ico">> >>
     /\ resolves[k].pc = "done"
     /\ \A i \in 1..Len(skipRoutes) : Reqs[resolves[k].req].path # skipRoutes[i]) =>
      /\ ~resolves[k].skipped
      /\ (strategy = "header" /\ resolves[k].req = "rnoid") => resolves[k].answer = 400
      /\ resolves[k].req = "rghost" => resolves[k].answer = 404
      /\ resolves[k].answer = 200 => resolves[k].bound.exists

(* C20: getCurrentTenant() returns the descriptor of the innermost run() in  *)
(* progress - the inner one while nested, the outer one again once the inner *)
(* run has returned or thrown - and none when no run is in progress; a       *)
(* continuation spawned inside a run reads that run's descriptor.            *)
C20_NearestEnclosingRun ==
  /\ scopeLast.op = "getCurrentTenant" =>
       scopeLast.value = (IF Len(scopeEnclosing) = 0 THEN None
                          ELSE scopeEnclosing[Len(scopeEnclosing)])
  /\ scopeLast.op = "continuation" => scopeLast.value = scopeLast.origin
  /\ Len(scopeEnclosing) = 0 => scopeStore = None

\* getCurrentTenant() is called inside run(a) after a nested run(b) has been left
C20_Witness ==
  /\ scopeLast.op = "getCurrentTenant" /\ scopeLast.value = "a"
  /\ scopeEnclosing = <<"a">>
  /\ \E task \in scopeTasks : task.origin = "b"

(* C21: the connection cache holds at most one handle per tenant id; a handle *)
(* is in the cache only because an operation of its tenant created it; an     *)
(* operation that finds its tenant's handle cached reuses it; and no          *)
(* operation is routed to a handle created for another tenant.                *)
C21_OneHandlePerTenant ==
  /\ \A i, j \in 1..Len(connCache) :
       connCache[i].tenantId = connCache[j].tenantId => i = j
  /\ \A i \in 1..Len(connCache) : connOwner[connCache[i].handle] = connCache[i].tenantId
  /\ connLast.op =>
       /\ connLast.cachedBefore = ~connLast.created
       /\ connOwner[connLast.handle] = connLast.by

C21_Witness ==
  /\ Len(connCache) = 2
  /\ connLast.op /\ connLast.cachedBefore /\ connLast.by = "b"
  /\ connCache[1].tenantId = "a"

(* C22: a drain that has returned did not raise, left the cache empty, and    *)
(* attempted close on every connection that was cached when it started - a    *)
(* failed close of one connection did not stop the closes after it.           *)
C22_DrainClosesAll ==
  drainLast.ran =>
    /\ ~drainLast.raised
    /\ drainLast.left = 0
    /\ \A h \in drainLast.atStart : connState[h] \in {"closed", "closeFailed"}

C22_Witness ==
  /\ drainLast.ran
  /\ drainLast.failures >= 1
  /\ \E g, h \in drainLast.atStart :
       g < h /\ connState[g] = "closeFailed" /\ connState[h] = "closed"

(* C25: every connection that has left the cache has had close attempted on   *)
(* it, and no data-access operation is routed to a connection that has        *)
(* already been closed.                                                       *)
C25_DrainUnderLoad ==
  /\ \A h \in connDropped : connState[h] \in {"closed", "closeFailed"}
  /\ connLast.op => connLast.state # "closed"

(* C23: when every tenant is under row-level isolation, every stored record   *)
(* carries the tenantId of the context that created it, and the record an     *)
(* updateById or updateOne has written still carries the tenantId of the      *)
(* tenant that ran the update.                                                *)
C23_TenantIdKept ==
  (\A t \in Tenants : isoStrategy[t] = "row")
  => /\ \A c \in CollNames : \A rec \in collections[c] : rec.tenantId = rec.creator
     /\ (last.op \in {"updateById", "updateOne"} /\ last.error = None)
          => \A rec \in last.matched : rec.tenantId = last.by

(* C24: a setCurrentTenant call made inside one request's scope changes only  *)
(* what that request observes: a request that made no such call reads the     *)
(* descriptor as resolved, and the descriptor a cache entry holds is as       *)
(* fetched.                                                                   *)
C24_AssignStaysInScope ==
  /\ \A r \in Requests : ~shReqs[r].assigned => shReqs[r].seen \subseteq {Original}
  /\ \A t \in Tenants : shCache[t] # 0 => shHeap[shCache[t]] = Original

(* C26: whenever no UserService.create or delete call is in progress, the     *)
(* tenant's usage.currentUsers equals the number of its non-deleted user      *)
(* records, and it is never negative.                                         *)
C26_UsersCounterTracksRecords ==
  /\ Quiet => tenantDocs["a"].usage.currentUsers = userRecords["a"]
  /\ tenantDocs["a"].usage.currentUsers >= 0

(* C27: suspend(T), aimed at an existing tenant in any state, leaves it with  *)
(* status suspended and isActive false; activate(T), aimed at a pending or    *)
(* suspended tenant, succeeds and leaves it with status active and isActive   *)
(* true.                                                                      *)
C27_LifecycleMoves ==
  /\ (adminLast.op = "suspend" /\ adminLast.slot # 0)
       => /\ registry[adminLast.slot].status = "suspended"
          /\ ~registry[adminLast.slot].isActive
  /\ (adminLast.op = "activate" /\ adminLast.before \in {"pending", "suspended"})
       => /\ adminLast.result = "ok"
          /\ registry[adminLast.slot].status = "active"
          /\ registry[adminLast.slot].isActive

(* C28: a tenant that TenantService.delete has retired is still stored, and   *)
(* a lookup of its tenantId (getById, the resolver's Directory read) finds no *)
(* tenant.                                                                    *)
C28_DeleteRetires ==
  /\ (adminLast.op = "delete" /\ adminLast.result = "ok") => registry[adminLast.slot].exists
  /\ \A s \in Slots :
       (registry[s].exists /\ registry[s].isDeleted)
         => s \notin TenantFindByTenantId(registry, registry[s].tenantId)

(* C29: every stored tenant has the tenantId and the subdomain it was created *)
(* with.                                                                      *)
C29_KeysImmutable ==
  \A s \in Slots :
    registry[s].exists
      => /\ registry[s].tenantId = registry[s].createdAs
         /\ registry[s].subdomain = registry[s].createdSub

====
